---- MODULE Spec2Model ----
(***************************************************************************)
(* Tessellum: the in-document markup scanners and the decoration builders  *)
(* of the CodeMirror plugins (math, wikilink, divider, live preview).      *)
(*                                                                         *)
(* A text is a sequence of one-character strings.  Offsets are 0-based, as *)
(* in the source; At(text, i) is JavaScript's text[i].                     *)
(***************************************************************************)
EXTENDS Integers, Sequences, FiniteSets, TLC

VARIABLES
    doc,                \* state.doc: the document text
    selection,          \* state.selection.main: [from, to]
    visibleRanges,      \* view.visibleRanges: sequence of [from, to]
    tree,               \* syntaxTree(state): the nodes in iteration order
    isIndexBuilt,       \* createWikiLinkPlugin: isIndexBuilt
    fileIndex,          \* WikiLinkFileIndex.index: the set of its keys
    pendingBuilds,      \* the calls of fileIndex.build awaiting list_files
    lastBuildFailed,    \* whether the build that returned last ended in its catch block
    lastUpdate,         \* the flags of the last update and which plugins built anew in it
    scanI,              \* findLatexExpressions: i
    latexMatches,       \* findLatexExpressions: matches
    wikiScanned,        \* whether findWikiLinks has returned
    wikiMatches,        \* findWikiLinks: matches
    mathDecorations,    \* mathPlugin: the state field's value
    dividerDecorations, \* dividerPlugin: this.decorations
    wikiDecorations,    \* createWikiLinkPlugin: this.decorations
    previewDecorations, \* markdownLivePreview: this.decorations
    widgetDOM,          \* the widgets whose toDOM drew the elements on screen
    previousRun,        \* what the finders returned the call before, if called
    dividerScan,        \* buildDecorations of the divider plugin: its loops' position
    fileSync,           \* useFileSynchronization: its state, ref and timers, and the files
    newestBuilt         \* the index of the listing answered to the build started last of those answered

vars == <<doc, selection, visibleRanges, tree, isIndexBuilt, fileIndex,
          pendingBuilds, lastBuildFailed, lastUpdate, scanI, latexMatches, wikiScanned, wikiMatches,
          mathDecorations, dividerDecorations, wikiDecorations,
          previewDecorations, widgetDOM, previousRun, dividerScan, fileSync,
          newestBuilt>>

-----------------------------------------------------------------------------
(* Bounds *)

\* longest text over MathAlphabet the finders are run on
MaxMathLen == 6
\* most tokens of WikiTokens a text of the finders is made of
MaxWikiTokens == 5
\* longest document the editor's edits build
MaxDocLen == 3
\* longest document in which range selections, not only cursors, are made
MaxRangeDocLen == 8
\* most calls of fileIndex.build that await list_files at one time
MaxPendingBuilds == 2
\* the longest document of SpecWidgets
MaxWidgetDocLen == 5
\* longest content of the one-link texts [[...]] the finders are run on
MaxLinkContentLen == 4
\* most lines and line breaks a document of SpecDividerScan is made of
MaxDividerTokens == 3
\* most visible ranges of SpecDividerScan
MaxVisibleRanges == 2
\* most calls of handleContentChange in a behaviour of SpecSave
MaxEdits == 3

-----------------------------------------------------------------------------
(* JavaScript strings *)

UNDEFINED == "undefined"

At(text, i) == IF i >= 0 /\ i < Len(text) THEN text[i + 1] ELSE UNDEFINED

\* text.slice(a, b) for 0 <= a, 0 <= b
Slice(text, a, b) ==
    LET e == IF b > Len(text) THEN Len(text) ELSE b
    IN  IF a >= e THEN <<>> ELSE SubSeq(text, a + 1, e)

IsWhitespace(c) == c \in {" ", "\n", "\t"}

RECURSIVE TrimStart(_)
TrimStart(s) ==
    IF s # <<>> /\ IsWhitespace(Head(s)) THEN TrimStart(Tail(s)) ELSE s

RECURSIVE TrimEnd(_)
TrimEnd(s) ==
    IF s # <<>> /\ IsWhitespace(s[Len(s)])
    THEN TrimEnd(SubSeq(s, 1, Len(s) - 1))
    ELSE s

Trim(s) == TrimEnd(TrimStart(s))

\* s.indexOf(c): the first 0-based offset of c in s, or -1
IndexOf(s, c) ==
    IF \E k \in 1..Len(s) : s[k] = c
    THEN (CHOOSE k \in 1..Len(s) : s[k] = c /\ \A j \in 1..(k - 1) : s[j] # c) - 1
    ELSE -1

\* s.indexOf(pat) for a string pat: the first 0-based offset, or -1
IndexOfString(s, pat) ==
    LET at == {k \in 0..(Len(s) - Len(pat)) : Slice(s, k, k + Len(pat)) = pat}
    IN  IF at = {} THEN -1 ELSE CHOOSE k \in at : \A j \in at : k <= j

\* s.includes(pat)
Includes(s, pat) == IndexOfString(s, pat) # -1

\* s.endsWith(pat)
EndsWith(s, pat) ==
    Len(s) >= Len(pat) /\ Slice(s, Len(s) - Len(pat), Len(s)) = pat

\* s.replace(pat, rep) for a string pat: the first occurrence only
Replace(s, pat, new) ==
    LET k == IndexOfString(s, pat)
    IN  IF k = -1 THEN s
        ELSE Slice(s, 0, k) \o new \o Slice(s, k + Len(pat), Len(s))

-----------------------------------------------------------------------------
(* shared-latex-utils.ts: findLatexExpressions *)

LatexMatch(start, end, formula, isBlock) ==
    [start |-> start, end |-> end, formula |-> formula, isBlock |-> isBlock]

\* BlockSearch with `i = end` lost after the push: the scan resumes right
\* after the opening $$, inside the block it has just emitted.
RECURSIVE BlockSearchRescan(_, _, _)
BlockSearchRescan(text, start, i) ==
    IF ~(i < Len(text) - 1) THEN [i |-> i, found |-> <<>>]
    ELSE IF At(text, i) = "\\" THEN BlockSearchRescan(text, start, i + 2)
    ELSE IF At(text, i) = "$" /\ At(text, i + 1) = "$"
         THEN [i |-> start + 2,
               found |-> <<LatexMatch(start, i + 2, Slice(text, start + 2, i), TRUE)>>]
    ELSE BlockSearchRescan(text, start, i + 1)

\* The search for a closing $$ (the inner while of the block branch), entered
\* with i after the opening $$.  Returns the scan index the branch leaves and
\* the match it pushed, if any.
RECURSIVE BlockSearch(_, _, _)
BlockSearch(text, start, i) ==
    IF ~(i < Len(text) - 1) THEN [i |-> i, found |-> <<>>]
    ELSE IF At(text, i) = "\\" THEN BlockSearch(text, start, i + 2)
    ELSE IF At(text, i) = "$" /\ At(text, i + 1) = "$"
         THEN [i |-> i + 2,
               found |-> <<LatexMatch(start, i + 2, Slice(text, start + 2, i), TRUE)>>]
    ELSE BlockSearch(text, start, i + 1)

\* InlineSearch without the backslash branch: an escaped $ closes the match.
RECURSIVE InlineSearchNoEscape(_, _, _)
InlineSearchNoEscape(text, start, i) ==
    IF ~(i < Len(text)) THEN [i |-> i, found |-> <<>>]
    ELSE IF At(text, i) = "\n" THEN [i |-> start + 1, found |-> <<>>]
    ELSE IF At(text, i) = "$"
         THEN [i |-> i + 1,
               found |-> <<LatexMatch(start, i + 1, Slice(text, start + 1, i), FALSE)>>]
    ELSE InlineSearchNoEscape(text, start, i + 1)

\* InlineSearch with `const end = i`: the closing $ left out of the match
RECURSIVE InlineSearchEndAtCloser(_, _, _)
InlineSearchEndAtCloser(text, start, i) ==
    IF ~(i < Len(text)) THEN [i |-> i, found |-> <<>>]
    ELSE IF At(text, i) = "\n" THEN [i |-> start + 1, found |-> <<>>]
    ELSE IF At(text, i) = "\\" THEN InlineSearchEndAtCloser(text, start, i + 2)
    ELSE IF At(text, i) = "$"
         THEN [i |-> i + 1,
               found |-> <<LatexMatch(start, i, Slice(text, start + 1, i), FALSE)>>]
    ELSE InlineSearchEndAtCloser(text, start, i + 1)

\* The search for a closing $ on the same line (the inner while of the inline
\* branch), entered with i after the opening $.
RECURSIVE InlineSearch(_, _, _)
InlineSearch(text, start, i) ==
    IF ~(i < Len(text)) THEN [i |-> i, found |-> <<>>]
    ELSE IF At(text, i) = "\n" THEN [i |-> start + 1, found |-> <<>>]
    ELSE IF At(text, i) = "\\" THEN InlineSearch(text, start, i + 2)
    ELSE IF At(text, i) = "$"
         THEN [i |-> i + 1,
               found |-> <<LatexMatch(start, i + 1, Slice(text, start + 1, i), FALSE)>>]
    ELSE InlineSearch(text, start, i + 1)

\* One iteration of the outer while loop, entered with i < text.length.
ScanStep(text, i) ==
    IF At(text, i) = "$" /\ At(text, i + 1) = "$" THEN BlockSearch(text, i, i + 2)
    ELSE IF At(text, i) = "$" THEN InlineSearch(text, i, i + 1)
    ELSE [i |-> i + 1, found |-> <<>>]

RECURSIVE ScanFrom(_, _, _)
ScanFrom(text, i, matches) ==
    IF ~(i < Len(text)) THEN matches
    ELSE LET r == ScanStep(text, i) IN ScanFrom(text, r.i, matches \o r.found)

FindLatexExpressions(text) == ScanFrom(text, 0, <<>>)

-----------------------------------------------------------------------------
(* CodeMirror's Text: lines *)

\* the offsets of the line breaks of text, ascending
RECURSIVE BreaksFrom(_, _)
BreaksFrom(text, i) ==
    IF i >= Len(text) THEN <<>>
    ELSE IF At(text, i) = "\n" THEN <<i>> \o BreaksFrom(text, i + 1)
    ELSE BreaksFrom(text, i + 1)

\* doc.lines
LineCount(text) == Len(BreaksFrom(text, 0)) + 1

\* doc.line(n), n from 1: {from, to, text}
Line(text, n) ==
    LET b == BreaksFrom(text, 0)
        from == IF n = 1 THEN 0 ELSE b[n - 1] + 1
        to == IF n > Len(b) THEN Len(text) ELSE b[n]
    IN  [from |-> from, to |-> to, text |-> Slice(text, from, to)]

\* doc.lineAt(pos), for 0 <= pos <= doc.length
LineAt(text, pos) ==
    Line(text, CHOOSE n \in 1..LineCount(text) :
                   Line(text, n).from <= pos /\ pos <= Line(text, n).to)

-----------------------------------------------------------------------------
(* wikiLink-plugin.ts: parseWikiLink, findWikiLinks *)

NoAlias == <<UNDEFINED>>

\* parseWikiLink without the calls of trim
ParseWikiLinkUntrimmed(text) ==
    LET inner == Slice(text, 2, Len(text) - 2)
        pipeIndex == IndexOf(inner, "|")
    IN  IF pipeIndex # -1
        THEN [target |-> Slice(inner, 0, pipeIndex),
              alias |-> Slice(inner, pipeIndex + 1, Len(inner))]
        ELSE [target |-> inner, alias |-> NoAlias]

ParseWikiLink(text) ==
    LET inner == Slice(text, 2, Len(text) - 2)
        pipeIndex == IndexOf(inner, "|")
    IN  IF pipeIndex # -1
        THEN [target |-> Trim(Slice(inner, 0, pipeIndex)),
              alias |-> Trim(Slice(inner, pipeIndex + 1, Len(inner)))]
        ELSE [target |-> Trim(inner), alias |-> NoAlias]

\* The group ((?:\\\]|\](?!\])|[^\]])+) followed by \]\], matched by
\* backtracking from offset p, with some (TRUE) or none (FALSE) of the
\* group's items consumed.  The offset after the closing ]] or -1.
RECURSIVE ContentMatch(_, _, _)
ContentMatch(t, p, some) ==
    LET escaped == IF At(t, p) = "\\" /\ At(t, p + 1) = "]"
                   THEN ContentMatch(t, p + 2, TRUE) ELSE -1
        single  == IF At(t, p) = "]" /\ At(t, p + 1) # "]"
                   THEN ContentMatch(t, p + 1, TRUE) ELSE -1
        other   == IF p < Len(t) /\ At(t, p) # "]"
                   THEN ContentMatch(t, p + 1, TRUE) ELSE -1
        close   == IF some /\ At(t, p) = "]" /\ At(t, p + 1) = "]"
                   THEN p + 2 ELSE -1
    IN  IF escaped # -1 THEN escaped
        ELSE IF single # -1 THEN single
        ELSE IF other # -1 THEN other
        ELSE close

\* MatchAt without the lookbehind (?<!\\)
MatchAtNoLookbehind(t, s) ==
    IF At(t, s) = "[" /\ At(t, s + 1) = "["
    THEN ContentMatch(t, s + 2, FALSE)
    ELSE -1

\* /(?<!\\)\[\[(...)+\]\]/ tried at offset s of t
MatchAt(t, s) ==
    IF At(t, s - 1) # "\\" /\ At(t, s) = "[" /\ At(t, s + 1) = "["
    THEN ContentMatch(t, s + 2, FALSE)
    ELSE -1

\* regex.exec(t) with regex.lastIndex = lastIndex: the leftmost match
RegexExec(t, lastIndex) ==
    IF \E s \in lastIndex..(Len(t) - 1) : MatchAt(t, s) # -1
    THEN LET s == CHOOSE s \in lastIndex..(Len(t) - 1) :
                      /\ MatchAt(t, s) # -1
                      /\ \A r \in lastIndex..(s - 1) : MatchAt(t, r) = -1
         IN  <<[index |-> s, end |-> MatchAt(t, s)]>>
    ELSE <<>>

\* LineWikiLinks with from = match.index: offsets in the line, not the document
RECURSIVE LineWikiLinksInLine(_, _)
LineWikiLinksInLine(line, lastIndex) ==
    LET m == RegexExec(line.text, lastIndex)
    IN  IF m = <<>> THEN <<>>
        ELSE LET fullText == Slice(line.text, m[1].index, m[1].end)
                 parsed == ParseWikiLink(fullText)
             IN  <<[from |-> m[1].index,
                    to |-> m[1].index + Len(fullText),
                    target |-> parsed.target,
                    alias |-> parsed.alias,
                    fullText |-> fullText]>>
                 \o LineWikiLinksInLine(line, m[1].end)

\* the while loop over one line's matches
RECURSIVE LineWikiLinks(_, _)
LineWikiLinks(line, lastIndex) ==
    LET m == RegexExec(line.text, lastIndex)
    IN  IF m = <<>> THEN <<>>
        ELSE LET fullText == Slice(line.text, m[1].index, m[1].end)
                 parsed == ParseWikiLink(fullText)
             IN  <<[from |-> line.from + m[1].index,
                    to |-> line.from + m[1].index + Len(fullText),
                    target |-> parsed.target,
                    alias |-> parsed.alias,
                    fullText |-> fullText]>>
                 \o LineWikiLinks(line, m[1].end)

RECURSIVE WikiLinksFromLine(_, _)
WikiLinksFromLine(text, n) ==
    IF n > LineCount(text) THEN <<>>
    ELSE LineWikiLinks(Line(text, n), 0) \o WikiLinksFromLine(text, n + 1)

FindWikiLinks(text) == WikiLinksFromLine(text, 1)

-----------------------------------------------------------------------------
(* math-plugin.ts: buildMathDecorations, mathPlugin *)

\* `cursorOverlap` with the end of the span excluded
MathCursorOverlapHalfOpen(sel, m) == sel.from >= m.start /\ sel.to < m.end

\* buildMathDecorations: cursorOverlap
MathCursorOverlap(sel, m) == sel.from >= m.start /\ sel.to <= m.end

MathWidget(formula, isBlock, startPos, endPos) ==
    [formula |-> formula, isBlock |-> isBlock, startPos |-> startPos, endPos |-> endPos]

MathDecoration(m) ==
    [from |-> m.start, to |-> m.end,
     widget |-> MathWidget(m.formula, m.isBlock, m.start, m.end),
     block |-> m.isBlock]

BuildMathDecorations(text, sel) ==
    LET matches == FindLatexExpressions(text)
        Shown(m) == ~MathCursorOverlap(sel, m)
        shown == SelectSeq(matches, Shown)
    IN  [k \in 1..Len(shown) |-> MathDecoration(shown[k])]

\* the condition of mathPlugin.update dropped: every transaction builds anew
MathRebuildsAlways(docChanged, selectionSet) == TRUE

\* mathPlugin.update: transaction.docChanged || transaction.selection
MathRebuilds(docChanged, selectionSet) == docChanged \/ selectionSet

\* mathPlugin.update: transaction.selection is set when selectionSet
MathUpdate(oldState, docChanged, selectionSet, text, sel) ==
    IF MathRebuilds(docChanged, selectionSet)
    THEN BuildMathDecorations(text, sel)
    ELSE oldState

-----------------------------------------------------------------------------
(* divider-plugin.ts: dividerPlugin *)

\* the line test with the text trimmed first
IsDividerLineTrimmed(lineText) == Trim(lineText) = <<"-", "-", "-">>

\* the test of the line's text as startsWith('---')
IsDividerLinePrefix(lineText) ==
    Len(lineText) >= 3 /\ Slice(lineText, 0, 3) = <<"-", "-", "-">>

\* line.text === '---'
IsDividerLine(lineText) == lineText = <<"-", "-", "-">>

\* buildDecorations: cursorOverlaps
DividerCursorOverlaps(sel, line) == sel.from >= line.from /\ sel.to <= line.to

DividerDecoration(line) ==
    [from |-> line.from, to |-> line.to,
     widget |-> [start |-> line.from, end |-> line.to]]

\* the body of the while loop with the line looked up at its start, not
\* with lineAt: the scan takes the text from pos to the line's end
DividerLineStepFromPos(text, sel, pos) ==
    LET whole == LineAt(text, pos)
        line == [from |-> pos, to |-> whole.to, text |-> Slice(text, pos, whole.to)]
    IN  [added |-> IF IsDividerLine(line.text) /\ ~DividerCursorOverlaps(sel, line)
                   THEN <<DividerDecoration(line)>> ELSE <<>>,
         pos |-> line.to + 1]

\* the body of the while loop: what it adds to the builder, and the next pos
DividerLineStep(text, sel, pos) ==
    LET line == LineAt(text, pos)
    IN  [added |-> IF IsDividerLine(line.text) /\ ~DividerCursorOverlaps(sel, line)
                   THEN <<DividerDecoration(line)>> ELSE <<>>,
         pos |-> line.to + 1]

\* the while loop over the lines of one visible range, from pos
RECURSIVE DividerScan(_, _, _, _)
DividerScan(text, sel, pos, to) ==
    IF ~(pos <= to) THEN <<>>
    ELSE LET line == LineAt(text, pos)
         IN  (IF IsDividerLine(line.text) /\ ~DividerCursorOverlaps(sel, line)
              THEN <<DividerDecoration(line)>> ELSE <<>>)
             \o DividerScan(text, sel, line.to + 1, to)

\* the for loop over view.visibleRanges
RECURSIVE DividerRanges(_, _, _)
DividerRanges(text, sel, ranges) ==
    IF ranges = <<>> THEN <<>>
    ELSE DividerScan(text, sel, Head(ranges).from, Head(ranges).to)
             \o DividerRanges(text, sel, Tail(ranges))

BuildDividerDecorations(text, sel, ranges) == DividerRanges(text, sel, ranges)

\* the condition as the comment above it has it: document changed or scrolled
DividerRebuildsNoSelection(docChanged, viewportChanged, selectionSet) ==
    docChanged \/ viewportChanged

\* dividerPlugin.update: the condition
DividerRebuilds(docChanged, viewportChanged, selectionSet) ==
    docChanged \/ viewportChanged \/ selectionSet

\* dividerPlugin.update
DividerUpdate(old, docChanged, viewportChanged, selectionSet, text, sel, ranges) ==
    IF DividerRebuilds(docChanged, viewportChanged, selectionSet)
    THEN BuildDividerDecorations(text, sel, ranges)
    ELSE old

-----------------------------------------------------------------------------
(* The widgets on screen: WidgetType.eq and toDOM *)

\* the widgets of a decoration set
Widgets(decos) == [k \in 1..Len(decos) |-> decos[k].widget]

\* no widget is drawn
NoWidgets == [math |-> <<>>, divider |-> <<>>]

\* MathWidget.eq without the comparison of startPos
MathWidgetEqNoStart(this, other) ==
    this.formula = other.formula /\ this.isBlock = other.isBlock

\* MathWidget.eq
MathWidgetEq(this, other) ==
    /\ this.formula = other.formula
    /\ this.isBlock = other.isBlock
    /\ this.startPos = other.startPos

\* DividerWidget.eq
DividerWidgetEq(this, other) ==
    this.start = other.start /\ this.end = other.end

\* The element shown for each decoration after an update: the view keeps
\* the element of a drawn widget that is eq to the new widget, listeners
\* included, and calls toDOM of the new widget otherwise.
DrawnMath(drawn, decos) ==
    [k \in 1..Len(decos) |->
        LET kept == {j \in 1..Len(drawn) : MathWidgetEq(drawn[j], decos[k].widget)}
        IN  IF kept = {} THEN decos[k].widget
            ELSE drawn[CHOOSE j \in kept : \A i \in kept : j <= i]]

DrawnDividers(drawn, decos) ==
    [k \in 1..Len(decos) |->
        LET kept == {j \in 1..Len(drawn) : DividerWidgetEq(drawn[j], decos[k].widget)}
        IN  IF kept = {} THEN decos[k].widget
            ELSE drawn[CHOOSE j \in kept : \A i \in kept : j <= i]]

Redraw(drawn, mathDecos, dividerDecos) ==
    [math |-> DrawnMath(drawn.math, mathDecos),
     divider |-> DrawnDividers(drawn.divider, dividerDecos)]

-----------------------------------------------------------------------------
(* wikiLink-plugin.ts: WikiLinkFileIndex.exists, createWikiLinkPlugin *)

\* WikiLinkFileIndex.build: the keys of the index built from a listing
IndexKeys(files, vaultPath) ==
    LET md == {f \in files : ~f.is_dir /\ EndsWith(f.filename, <<".", "m", "d">>)}
        Keys(f) ==
            LET withoutExt == Replace(f.filename, <<".", "m", "d">>, <<>>)
                withoutVault == Replace(f.path, vaultPath, <<>>)
                relativePath == IF At(withoutVault, 0) = "/"
                                THEN Slice(withoutVault, 1, Len(withoutVault))
                                ELSE withoutVault
            IN  {withoutExt, f.filename}
                    \cup (IF Includes(relativePath, <<"/">>)
                          THEN {Replace(relativePath, <<".", "m", "d">>, <<>>)}
                          ELSE {})
    IN  UNION {Keys(f) : f \in md}

\* the property names this.index inherits: it is made by the literal {},
\* whose prototype is Object.prototype
ObjectPrototypeKeys ==
    {<<"c", "o", "n", "s", "t", "r", "u", "c", "t", "o", "r">>,
     <<"t", "o", "S", "t", "r", "i", "n", "g">>,
     <<"t", "o", "L", "o", "c", "a", "l", "e", "S", "t", "r", "i", "n", "g">>,
     <<"v", "a", "l", "u", "e", "O", "f">>,
     <<"h", "a", "s", "O", "w", "n", "P", "r", "o", "p", "e", "r", "t", "y">>,
     <<"i", "s", "P", "r", "o", "t", "o", "t", "y", "p", "e", "O", "f">>,
     <<"p", "r", "o", "p", "e", "r", "t", "y", "I", "s", "E", "n", "u", "m", "e", "r", "a", "b", "l", "e">>,
     <<"_", "_", "p", "r", "o", "t", "o", "_", "_">>,
     <<"_", "_", "d", "e", "f", "i", "n", "e", "G", "e", "t", "t", "e", "r", "_", "_">>,
     <<"_", "_", "d", "e", "f", "i", "n", "e", "S", "e", "t", "t", "e", "r", "_", "_">>,
     <<"_", "_", "l", "o", "o", "k", "u", "p", "G", "e", "t", "t", "e", "r", "_", "_">>,
     <<"_", "_", "l", "o", "o", "k", "u", "p", "S", "e", "t", "t", "e", "r", "_", "_">>}

\* key in this.index, index the set of the keys registered in this.index:
\* the in operator also finds inherited properties
In(index, key) == key \in index \/ key \in ObjectPrototypeKeys

\* fileIndex.exists(target)
Exists(index, target) ==
    In(index, target) \/ In(index, target \o <<".", "m", "d">>)

\* this.index[key]: the path registered under the key, an inherited member
\* of Object.prototype, or undefined
Lookup(index, key) ==
    IF key \in index THEN "path"
    ELSE IF key \in ObjectPrototypeKeys THEN "inherited"
    ELSE "undefined"

\* fileIndex.resolve(target): paths and inherited members are truthy
Resolve(index, target) ==
    IF Lookup(index, target) # "undefined"
    THEN Lookup(index, target)
    ELSE Lookup(index, target \o <<".", "m", "d">>)

\* the mark with the two classes exchanged
WikiMarkSwapped(match, exists) ==
    [from |-> match.from, to |-> match.to,
     class |-> IF exists THEN "cm-wikilink cm-wikilink-broken"
                         ELSE "cm-wikilink cm-wikilink-valid",
     target |-> match.target,
     alias |-> IF match.alias = NoAlias THEN <<>> ELSE match.alias]

WikiMark(match, exists) ==
    [from |-> match.from, to |-> match.to,
     class |-> IF exists THEN "cm-wikilink cm-wikilink-valid"
                         ELSE "cm-wikilink cm-wikilink-broken",
     target |-> match.target,
     alias |-> IF match.alias = NoAlias THEN <<>> ELSE match.alias]

\* buildDecorations with a link taken as missing while the index is not built
BuildWikiDecorationsUnbuiltBroken(text, built, index) ==
    LET matches == FindWikiLinks(text)
    IN  [k \in 1..Len(matches) |->
            WikiMark(matches[k],
                     IF built THEN Exists(index, matches[k].target) ELSE FALSE)]

\* createWikiLinkPlugin: buildDecorations
BuildWikiDecorations(text, built, index) ==
    LET matches == FindWikiLinks(text)
    IN  [k \in 1..Len(matches) |->
            WikiMark(matches[k],
                     IF built THEN Exists(index, matches[k].target) ELSE TRUE)]

\* createWikiLinkPlugin: update, the condition
WikiRebuilds(docChanged, viewportChanged) == docChanged \/ viewportChanged

\* createWikiLinkPlugin: update
WikiUpdate(old, docChanged, viewportChanged, text, built, index) ==
    IF WikiRebuilds(docChanged, viewportChanged)
    THEN BuildWikiDecorations(text, built, index)
    ELSE old

-----------------------------------------------------------------------------
(* markdown-preview-plugin.ts: buildDecorations, markdownLivePreview *)

HIDDEN_MARKS ==
    {"HeaderMark", "EmphasisMark", "QuoteMark", "ListMark", "LinkMark", "URL",
     "ImageMark"}

\* node.node.parent of a node without one
NoParent == [name |-> "null"]

\* the test of the selection against the parent: fully inside it
PreviewCursorInside(sel, parent) == sel.from >= parent.from /\ sel.to <= parent.to

\* buildDecorations: cursorOverlaps
PreviewCursorOverlaps(sel, parent) == sel.from <= parent.to /\ sel.to >= parent.from

\* whether buildDecorations gets as far as the cursor test for a node
Hideable(node) ==
    /\ node.name \in HIDDEN_MARKS
    /\ node.parent # NoParent
    /\ ~(/\ node.name \in {"LinkMark", "URL"}
         /\ node.parent.name \notin {"Link", "Image"})

BuildPreviewDecorations(nodes, sel) ==
    LET Hidden(node) ==
            Hideable(node) /\ ~PreviewCursorOverlaps(sel, node.parent)
        hidden == SelectSeq(nodes, Hidden)
    IN  [k \in 1..Len(hidden) |-> [from |-> hidden[k].from, to |-> hidden[k].to]]

\* markdownLivePreview.update: the condition, the syntax tree being
\* available before and after (treeJustBecameReady is false)
PreviewRebuilds(docChanged, viewportChanged, selectionSet) ==
    docChanged \/ viewportChanged \/ selectionSet

\* markdownLivePreview.update
PreviewUpdate(old, docChanged, viewportChanged, selectionSet, nodes, sel) ==
    IF PreviewRebuilds(docChanged, viewportChanged, selectionSet)
    THEN BuildPreviewDecorations(nodes, sel)
    ELSE old

-----------------------------------------------------------------------------
(* The texts the finders are run on *)

SeqsUpTo(S, n) == UNION {[1..k -> S] : k \in 0..n}

RECURSIVE Flatten(_)
Flatten(ss) == IF ss = <<>> THEN <<>> ELSE Head(ss) \o Flatten(Tail(ss))

MathAlphabet == {"$", "\\", "\n", "a"}

WikiTokens == {<<"[", "[">>, <<"]", "]">>, <<"]">>, <<"\\">>, <<"a">>, <<"\n">>}

\* $$a $b$ c$$
BlockWithInlineText == <<"$", "$", "a", " ", "$", "b", "$", " ", "c", "$", "$">>
\* \$not math\$
EscapedMathText == <<"\\", "$", "n", "o", "t", " ", "m", "a", "t", "h", "\\", "$">>
\* $abc<newline>def$
InlineAcrossLinesText == <<"$", "a", "b", "c", "\n", "d", "e", "f", "$">>
\* \[[Not a link]]
EscapedLinkText ==
    <<"\\", "[", "[", "N", "o", "t", " ", "a", " ", "l", "i", "n", "k", "]", "]">>
\* [[a]] [[b|c]]<newline>[[d]]
ThreeLinksText ==
    <<"[", "[", "a", "]", "]", " ", "[", "[", "b", "|", "c", "]", "]", "\n",
      "[", "[", "d", "]", "]">>
\* $a$[[a]]$$b$$[[b|c]]
MathAndLinksText ==
    <<"$", "a", "$", "[", "[", "a", "]", "]", "$", "$", "b", "$", "$",
      "[", "[", "b", "|", "c", "]", "]">>

\* $$a $b$ c
UnterminatedBlockText == <<"$", "$", "a", " ", "$", "b", "$", " ", "c">>

ExampleTexts ==
    {BlockWithInlineText, EscapedMathText, InlineAcrossLinesText,
     EscapedLinkText, ThreeLinksText, MathAndLinksText, UnterminatedBlockText}

LinkContentAlphabet == {"a", "|", "\\", " "}

\* [[content]] for each content over LinkContentAlphabet
OneLinkTexts ==
    {<<"[", "[">> \o c \o <<"]", "]">> :
        c \in SeqsUpTo(LinkContentAlphabet, MaxLinkContentLen)}

FinderTexts ==
    SeqsUpTo(MathAlphabet, MaxMathLen)
        \cup {Flatten(ts) : ts \in SeqsUpTo(WikiTokens, MaxWikiTokens)}
        \cup OneLinkTexts
        \cup ExampleTexts

-----------------------------------------------------------------------------
(* The finders, run on one text *)

Cursor(p) == [from |-> p, to |-> p]

Range(from, to) == [from |-> from, to |-> to]

\* an update: its flags, and which plugins called their build function
UpdateRecord(docChanged, viewportChanged, selectionSet, math, divider, wiki, preview) ==
    [docChanged |-> docChanged, viewportChanged |-> viewportChanged,
     selectionSet |-> selectionSet, math |-> math, divider |-> divider,
     wiki |-> wiki, preview |-> preview]

\* buildDecorations of the divider plugin is not stepped through
NoScan == [k |-> 0, pos |-> 0, running |-> FALSE]

\* the notes of the vault and the contents typed into them
Notes == {"a.md", "b.md"}
SaveContents == {"x", "y"}
\* no content was passed to handleContentChange for the note
NoContent == "<none>"

\* useFileSynchronization(activeNote) after the first render with a note:
\* content is "", saveTimeoutRef.current is null (0), the load effect has
\* called read_file, no timer is set, nothing has been written
NoSync ==
    [activeNote |-> "a.md", content |-> "", loads |-> {"a.md"},
     saveTimeoutRef |-> 0, timers |-> {}, nextId |-> 1,
     disk |-> [n \in Notes |-> ""],
     lastContent |-> [n \in Notes |-> NoContent],
     saved |-> [n \in Notes |-> TRUE],
     writes |-> <<>>]

\* no call of a finder has returned before
NoRun == [latexRan |-> FALSE, latex |-> <<>>, wikiRan |-> FALSE, wiki |-> <<>>]

\* before the first update
NoUpdate == UpdateRecord(FALSE, FALSE, FALSE, FALSE, FALSE, FALSE, FALSE)

\* the viewports of a text: the lines a to b
LineViewports(text) ==
    {<<Range(Line(text, a).from, Line(text, b).to)>> :
        <<a, b>> \in {x \in (1..LineCount(text)) \X (1..LineCount(text)) :
                         x[1] <= x[2]}}


InitFinders ==
    /\ doc \in FinderTexts
    /\ selection = Cursor(0)
    /\ visibleRanges = <<>>
    /\ tree = <<>>
    /\ isIndexBuilt = FALSE
    /\ fileIndex = {}
    /\ pendingBuilds = <<>>
    /\ lastBuildFailed = FALSE
    /\ lastUpdate = NoUpdate
    /\ scanI = 0
    /\ latexMatches = <<>>
    /\ wikiScanned = FALSE
    /\ wikiMatches = <<>>
    /\ mathDecorations = <<>>
    /\ dividerDecorations = <<>>
    /\ wikiDecorations = <<>>
    /\ previewDecorations = <<>>
    /\ widgetDOM = NoWidgets
    /\ previousRun = NoRun
    /\ dividerScan = NoScan
    /\ fileSync = NoSync
    /\ newestBuilt = {}

\* findLatexExpressions has left its outer loop
LatexScanned == ~(scanI < Len(doc))

\* one iteration of the outer while loop of findLatexExpressions(doc)
LatexScanStep ==
    /\ scanI < Len(doc)
    /\ LET r == ScanStep(doc, scanI)
       IN  /\ scanI' = r.i
           /\ latexMatches' = latexMatches \o r.found
    /\ UNCHANGED <<fileSync, newestBuilt, doc, selection, visibleRanges, tree, isIndexBuilt, fileIndex,
                   pendingBuilds, lastBuildFailed, lastUpdate,
                   wikiScanned, wikiMatches, mathDecorations, dividerDecorations,
                   wikiDecorations, previewDecorations, widgetDOM, previousRun, dividerScan>>

\* findLatexExpressions with the matches of the call before as its list
MatchesKept == latexMatches

\* findLatexExpressions: const matches = []
MatchesAtCall == <<>>

\* findLatexExpressions(doc) is called again, the call before having
\* returned: const matches = []; let i = 0
FindLatexExpressionsCall ==
    /\ LatexScanned
    /\ scanI' = 0
    /\ latexMatches' = MatchesAtCall
    /\ previousRun' = [previousRun EXCEPT !.latexRan = TRUE, !.latex = latexMatches]
    /\ UNCHANGED <<fileSync, newestBuilt, doc, selection, visibleRanges, tree, isIndexBuilt, fileIndex,
                   pendingBuilds, lastBuildFailed, lastUpdate,
                   wikiScanned, wikiMatches, mathDecorations, dividerDecorations,
                   wikiDecorations, previewDecorations, widgetDOM, dividerScan>>

\* findWikiLinks(view) on view.state.doc = doc: its regex is made anew in
\* each call, and regex.lastIndex = 0 before each line
FindWikiLinksCall ==
    /\ wikiScanned' = TRUE
    /\ wikiMatches' = FindWikiLinks(doc)
    /\ previousRun' = [previousRun EXCEPT !.wikiRan = wikiScanned, !.wiki = wikiMatches]
    /\ UNCHANGED <<fileSync, newestBuilt, doc, selection, visibleRanges, tree, isIndexBuilt, fileIndex,
                   pendingBuilds, lastBuildFailed, lastUpdate,
                   scanI, latexMatches, mathDecorations, dividerDecorations,
                   wikiDecorations, previewDecorations, widgetDOM, dividerScan>>

NextFinders ==
    \/ LatexScanStep
    \/ FindLatexExpressionsCall
    \/ FindWikiLinksCall

SpecFinders == InitFinders /\ [][NextFinders]_vars

-----------------------------------------------------------------------------
(* The editor: one document, shown whole, its selection, and the four
   decoration sets kept by the plugins of Editor.tsx *)

EditorAlphabet == {"$", "a", "\n"}

\* a$[[a]]$ : a wikilink written inside inline math
LinkInMathDoc == <<"a", "$", "[", "[", "a", "]", "]", "$">>
\* $$$a$$$
DollarsDoc == <<"$", "$", "$", "a", "$", "$", "$">>
\* aaaaaaaaaa$bbbbbbbb$aaaaaa : one inline span, [10,20)
SpanTenTwentyDoc ==
    <<"a", "a", "a", "a", "a", "a", "a", "a", "a", "a",
      "$", "b", "b", "b", "b", "b", "b", "b", "b", "$",
      "a", "a", "a", "a", "a", "a">>
\* three lines: `---`, `--- ` and `----`
DividerLinesDoc ==
    <<"-", "-", "-", "\n", "-", "-", "-", " ", "\n", "-", "-", "-", "-">>
\* two lines: $a$ and b
MathLinesDoc == <<"$", "a", "$", "\n", "b">>
\* two lines `---`, each ended by a line break
DividerPairDoc == <<"-", "-", "-", "\n", "-", "-", "-", "\n">>
\* a *b* c
EmphasisDoc == <<"a", " ", "*", "b", "*", " ", "c">>
\* [b](c) d
LinkDoc == <<"[", "b", "]", "(", "c", ")", " ", "d">>
\* <ab:c> d
AutolinkDoc == <<"<", "a", "b", ":", "c", ">", " ", "d">>
\* # a<newline>b
HeadingDoc == <<"#", " ", "a", "\n", "b">>

EditorExamples ==
    {LinkInMathDoc, DollarsDoc, SpanTenTwentyDoc, MathLinesDoc,
     DividerLinesDoc, DividerPairDoc, EmphasisDoc, LinkDoc, AutolinkDoc, HeadingDoc}

EditorDocs == SeqsUpTo(EditorAlphabet, MaxDocLen) \cup EditorExamples

Selections(text) ==
    {Range(f, t) : <<f, t>> \in {x \in (0..Len(text)) \X (0..Len(text)) : x[1] <= x[2]}}

\* the whole document is visible
FullViewport(text) == <<Range(0, Len(text))>>

\* The nodes of syntaxTree(state), in the order iterate() enters them; each
\* carries node.node.parent.
Node(from, to, name, parent) ==
    [from |-> from, to |-> to, name |-> name, parent |-> parent]

Parent(from, to, name) == [from |-> from, to |-> to, name |-> name]

DocumentNode(text) == Node(0, Len(text), "Document", NoParent)

\* the paragraphs of a text of letters, dollar signs and line breaks: the
\* runs of non-empty lines, from line n on
RECURSIVE ParagraphsFrom(_, _)
ParagraphsFrom(text, n) ==
    IF n > LineCount(text) THEN <<>>
    ELSE IF Line(text, n).text = <<>> THEN ParagraphsFrom(text, n + 1)
    ELSE LET last == CHOOSE m \in n..LineCount(text) :
                         /\ \A j \in n..m : Line(text, j).text # <<>>
                         /\ m = LineCount(text) \/ Line(text, m + 1).text = <<>>
         IN  <<Node(Line(text, n).from, Line(text, last).to, "Paragraph",
                    Parent(0, Len(text), "Document"))>>
                 \o ParagraphsFrom(text, last + 1)

\* syntaxTree(state) for the documents of the model
ParseTree(text) ==
    LET document == Parent(0, Len(text), "Document")
        paragraph == Parent(0, Len(text), "Paragraph")
    IN  CASE text = LinkInMathDoc ->
                 <<DocumentNode(text), Node(0, 8, "Paragraph", document),
                   Node(3, 6, "Link", paragraph),
                   Node(3, 4, "LinkMark", Parent(3, 6, "Link")),
                   Node(5, 6, "LinkMark", Parent(3, 6, "Link"))>>
          [] text = DividerLinesDoc ->
                 <<DocumentNode(text), Node(0, 3, "HorizontalRule", document),
                   Node(4, 8, "HorizontalRule", document),
                   Node(9, 13, "HorizontalRule", document)>>
          [] text = DividerPairDoc ->
                 <<DocumentNode(text), Node(0, 3, "HorizontalRule", document),
                   Node(4, 7, "HorizontalRule", document)>>
          [] text = EmphasisDoc ->
                 <<DocumentNode(text), Node(0, 7, "Paragraph", document),
                   Node(2, 5, "Emphasis", paragraph),
                   Node(2, 3, "EmphasisMark", Parent(2, 5, "Emphasis")),
                   Node(4, 5, "EmphasisMark", Parent(2, 5, "Emphasis"))>>
          [] text = LinkDoc ->
                 <<DocumentNode(text), Node(0, 8, "Paragraph", document),
                   Node(0, 6, "Link", paragraph),
                   Node(0, 1, "LinkMark", Parent(0, 6, "Link")),
                   Node(2, 3, "LinkMark", Parent(0, 6, "Link")),
                   Node(3, 4, "LinkMark", Parent(0, 6, "Link")),
                   Node(4, 5, "URL", Parent(0, 6, "Link")),
                   Node(5, 6, "LinkMark", Parent(0, 6, "Link"))>>
          [] text = AutolinkDoc ->
                 <<DocumentNode(text), Node(0, 8, "Paragraph", document),
                   Node(0, 6, "Autolink", paragraph),
                   Node(0, 1, "LinkMark", Parent(0, 6, "Autolink")),
                   Node(1, 5, "URL", Parent(0, 6, "Autolink")),
                   Node(5, 6, "LinkMark", Parent(0, 6, "Autolink"))>>
          [] text = HeadingDoc ->
                 <<DocumentNode(text), Node(0, 3, "ATXHeading1", document),
                   Node(0, 1, "HeaderMark", Parent(0, 3, "ATXHeading1")),
                   Node(4, 5, "Paragraph", document)>>
          [] OTHER -> <<DocumentNode(text)>> \o ParagraphsFrom(text, 1)

\* the state after the EditorView is constructed on a document
InitEditor ==
    /\ doc \in EditorDocs
    /\ selection = Cursor(0)
    /\ visibleRanges = FullViewport(doc)
    /\ tree = ParseTree(doc)
    /\ isIndexBuilt = FALSE
    /\ fileIndex = {}
    /\ pendingBuilds = <<[initial |-> TRUE, overtaken |-> FALSE]>>
    /\ lastBuildFailed = FALSE
    /\ lastUpdate = NoUpdate
    /\ scanI = 0
    /\ latexMatches = <<>>
    /\ wikiScanned = FALSE
    /\ wikiMatches = <<>>
    /\ mathDecorations = BuildMathDecorations(doc, selection)
    /\ dividerDecorations = BuildDividerDecorations(doc, selection, visibleRanges)
    /\ wikiDecorations = BuildWikiDecorations(doc, isIndexBuilt, fileIndex)
    /\ previewDecorations = BuildPreviewDecorations(tree, selection)
    /\ widgetDOM = [math |-> Widgets(mathDecorations),
                    divider |-> Widgets(dividerDecorations)]
    /\ previousRun = NoRun
    /\ dividerScan = NoScan
    /\ fileSync = NoSync
    /\ newestBuilt = {}

\* One update of the view: the new state, and the update methods of the
\* state field and of the three view plugins.
Dispatch(newDoc, newSel, newRanges, newTree, docChanged, viewportChanged, selectionSet) ==
    /\ doc' = newDoc
    /\ selection' = newSel
    /\ visibleRanges' = newRanges
    /\ tree' = newTree
    /\ mathDecorations' =
           MathUpdate(mathDecorations, docChanged, selectionSet, newDoc, newSel)
    /\ dividerDecorations' =
           DividerUpdate(dividerDecorations, docChanged, viewportChanged,
                         selectionSet, newDoc, newSel, newRanges)
    /\ wikiDecorations' =
           WikiUpdate(wikiDecorations, docChanged, viewportChanged, newDoc,
                      isIndexBuilt, fileIndex)
    /\ previewDecorations' =
           PreviewUpdate(previewDecorations, docChanged, viewportChanged,
                         selectionSet, newTree, newSel)
    /\ lastUpdate' =
           UpdateRecord(docChanged, viewportChanged, selectionSet,
                        MathRebuilds(docChanged, selectionSet),
                        DividerRebuilds(docChanged, viewportChanged, selectionSet),
                        WikiRebuilds(docChanged, viewportChanged),
                        PreviewRebuilds(docChanged, viewportChanged, selectionSet))
    /\ widgetDOM' = Redraw(widgetDOM, mathDecorations', dividerDecorations')
    /\ UNCHANGED <<fileSync, newestBuilt, isIndexBuilt, fileIndex, pendingBuilds, lastBuildFailed,
                   scanI, latexMatches, wikiScanned, wikiMatches, previousRun, dividerScan>>

\* the user moves the cursor
MoveCursor ==
    \E p \in 0..Len(doc) :
        Dispatch(doc, Cursor(p), visibleRanges, tree, FALSE, FALSE, TRUE)

\* the user selects a non-empty range
SelectRange ==
    /\ Len(doc) <= MaxRangeDocLen
    /\ \E sel \in Selections(doc) :
          /\ sel.from < sel.to
          /\ Dispatch(doc, sel, visibleRanges, tree, FALSE, FALSE, TRUE)

\* the user types a character at the cursor
InsertChar ==
    /\ Len(doc) < MaxDocLen
    /\ \E c \in EditorAlphabet :
          LET p == selection.from
              newDoc == Slice(doc, 0, p) \o <<c>> \o Slice(doc, selection.to, Len(doc))
          IN  /\ Len(newDoc) <= MaxDocLen
              /\ Dispatch(newDoc, Cursor(p + 1), FullViewport(newDoc),
                          ParseTree(newDoc), TRUE, TRUE, TRUE)

\* the user deletes the selection, or the character before the cursor
DeleteChar ==
    /\ Len(doc) <= MaxDocLen
    /\ selection.to > 0
    /\ LET p == IF selection.from = selection.to THEN selection.from - 1
                ELSE selection.from
           newDoc == Slice(doc, 0, p) \o Slice(doc, selection.to, Len(doc))
       IN  Dispatch(newDoc, Cursor(p), FullViewport(newDoc), ParseTree(newDoc),
                    TRUE, TRUE, TRUE)

\* the user scrolls: other lines of the document become visible
ScrollViewport ==
    \E newRanges \in LineViewports(doc) \ {visibleRanges} :
        Dispatch(doc, selection, newRanges, tree, FALSE, TRUE, FALSE)

\* an update that changes neither document, viewport nor selection
OtherUpdate ==
    Dispatch(doc, selection, visibleRanges, tree, FALSE, FALSE, FALSE)

NextEditor ==
    \/ MoveCursor
    \/ SelectRange
    \/ InsertChar
    \/ DeleteChar
    \/ ScrollViewport
    \/ OtherUpdate

SpecEditor == InitEditor /\ [][NextEditor]_vars

-----------------------------------------------------------------------------
(* The wikilink plugin of createWikiLinkPlugin with its file index: the
   document, the viewport, the builds of the index in flight and the
   plugin's decoration set *)

\* See [[My Note]] for details.
MyNoteDoc ==
    <<"S", "e", "e", " ", "[", "[", "M", "y", " ", "N", "o", "t", "e", "]", "]",
      " ", "f", "o", "r", " ", "d", "e", "t", "a", "i", "l", "s", ".">>
\* two lines: [[a]] and [[d/b|c]]
LinkLinesDoc ==
    <<"[", "[", "a", "]", "]", "\n",
      "[", "[", "d", "/", "b", "|", "c", "]", "]">>
\* two lines without a link
NoLinkDoc == <<"a", "\n", "b">>

WikiDocs == {MyNoteDoc, LinkLinesDoc, LinkInMathDoc, NoLinkDoc}

\* config.vaultPath
VaultPath == <<"/", "v">>

FileMetadata(filename, path, is_dir) ==
    [filename |-> filename, path |-> path, is_dir |-> is_dir]

\* /v/a.md
NoteA == FileMetadata(<<"a", ".", "m", "d">>,
                      <<"/", "v", "/", "a", ".", "m", "d">>, FALSE)
\* /v/My Note.md
NoteMyNote ==
    FileMetadata(<<"M", "y", " ", "N", "o", "t", "e", ".", "m", "d">>,
                 <<"/", "v", "/", "M", "y", " ", "N", "o", "t", "e", ".", "m", "d">>,
                 FALSE)
\* /v/d, a folder
FolderD == FileMetadata(<<"d">>, <<"/", "v", "/", "d">>, TRUE)
\* /v/d/b.md
NoteB == FileMetadata(<<"b", ".", "m", "d">>,
                      <<"/", "v", "/", "d", "/", "b", ".", "m", "d">>, FALSE)
\* /v/c.txt
TextC == FileMetadata(<<"c", ".", "t", "x", "t">>,
                      <<"/", "v", "/", "c", ".", "t", "x", "t">>, FALSE)

\* what list_files may return
VaultListings == {{}, {NoteA, TextC}, {NoteMyNote, FolderD, NoteB}}

\* the state after createWikiLinkPlugin(config) and the construction of the
\* view: the initial build of the index is awaiting list_files
InitWiki ==
    /\ doc \in WikiDocs
    /\ selection = Cursor(0)
    /\ visibleRanges = FullViewport(doc)
    /\ tree = <<>>
    /\ isIndexBuilt = FALSE
    /\ fileIndex = {}
    /\ pendingBuilds = <<[initial |-> TRUE, overtaken |-> FALSE]>>
    /\ lastBuildFailed = FALSE
    /\ lastUpdate = NoUpdate
    /\ scanI = 0
    /\ latexMatches = <<>>
    /\ wikiScanned = FALSE
    /\ wikiMatches = <<>>
    /\ mathDecorations = <<>>
    /\ dividerDecorations = <<>>
    /\ wikiDecorations = BuildWikiDecorations(doc, isIndexBuilt, fileIndex)
    /\ previewDecorations = <<>>
    /\ widgetDOM = NoWidgets
    /\ previousRun = NoRun
    /\ dividerScan = NoScan
    /\ fileSync = NoSync
    /\ newestBuilt = {}

\* one update of the view, as the wikilink plugin sees it
WikiDispatch(newDoc, newSel, newRanges, docChanged, viewportChanged) ==
    /\ doc' = newDoc
    /\ selection' = newSel
    /\ visibleRanges' = newRanges
    /\ wikiDecorations' =
           WikiUpdate(wikiDecorations, docChanged, viewportChanged, newDoc,
                      isIndexBuilt, fileIndex)
    /\ lastUpdate' =
           UpdateRecord(docChanged, viewportChanged, selection' # selection,
                        FALSE, FALSE, WikiRebuilds(docChanged, viewportChanged),
                        FALSE)
    /\ UNCHANGED <<fileSync, newestBuilt, tree, isIndexBuilt, fileIndex, pendingBuilds,
                   lastBuildFailed, scanI, latexMatches, wikiScanned, wikiMatches, mathDecorations,
                   dividerDecorations, previewDecorations, widgetDOM, previousRun, dividerScan>>

\* a transaction replaces the document
WikiReplaceDoc ==
    \E newDoc \in WikiDocs \ {doc} :
        WikiDispatch(newDoc, Cursor(0), FullViewport(newDoc), TRUE, TRUE)

\* the user scrolls
WikiScroll ==
    \E newRanges \in LineViewports(doc) \ {visibleRanges} :
        WikiDispatch(doc, selection, newRanges, FALSE, TRUE)

\* the user moves the cursor
WikiMoveCursor ==
    \E p \in {0, Len(doc)} \ {selection.from} :
        WikiDispatch(doc, Cursor(p), visibleRanges, FALSE, FALSE)

\* the timer of refreshInterval fires: fileIndex.build is called
RefreshTick ==
    /\ Len(pendingBuilds) < MaxPendingBuilds
    /\ pendingBuilds' = Append(pendingBuilds, [initial |-> FALSE, overtaken |-> FALSE])
    /\ UNCHANGED <<fileSync, newestBuilt, doc, selection, visibleRanges, tree, isIndexBuilt, fileIndex,
                   lastBuildFailed, lastUpdate, scanI, latexMatches,
                   wikiScanned, wikiMatches, mathDecorations,
                   dividerDecorations, wikiDecorations, previewDecorations, widgetDOM, previousRun, dividerScan>>

\* pendingBuilds without its k-th entry
WithoutBuild(k) ==
    SubSeq(pendingBuilds, 1, k - 1) \o SubSeq(pendingBuilds, k + 1, Len(pendingBuilds))

\* pendingBuilds without its k-th entry, the builds started before it marked
\* as overtaken by an answer to a build started later
Overtaking(k) ==
    [j \in 1..(k - 1) |-> [pendingBuilds[j] EXCEPT !.overtaken = TRUE]]
        \o SubSeq(pendingBuilds, k + 1, Len(pendingBuilds))

\* the outcomes of invoke('list_files')
Rejected == [failed |-> TRUE, files |-> {}]
Resolved(files) == [failed |-> FALSE, files |-> files]

\* build with this.index = {} run before the await
BuildClearedFirst(index, result, vaultPath) ==
    IF result.failed THEN {} ELSE IndexKeys(result.files, vaultPath)

\* WikiLinkFileIndex.build from the answer of list_files on: this.index
\* after it; the catch block only logs
Build(index, result, vaultPath) ==
    IF result.failed THEN index ELSE IndexKeys(result.files, vaultPath)

\* the end of the k-th pending build: build returns and, for the initial
\* build, the then-callback sets isIndexBuilt
BuildReturns(k, result) ==
    /\ fileIndex' = Build(fileIndex, result, VaultPath)
    /\ lastBuildFailed' = result.failed
    /\ isIndexBuilt' = (isIndexBuilt \/ pendingBuilds[k].initial)
    /\ pendingBuilds' = IF result.failed THEN WithoutBuild(k) ELSE Overtaking(k)
    /\ newestBuilt' = IF result.failed \/ pendingBuilds[k].overtaken
                      THEN newestBuilt
                      ELSE IndexKeys(result.files, VaultPath)
    /\ UNCHANGED <<fileSync, doc, selection, visibleRanges, tree, lastUpdate, scanI,
                   latexMatches, wikiScanned, wikiMatches, mathDecorations,
                   dividerDecorations, wikiDecorations, previewDecorations, widgetDOM, previousRun, dividerScan>>

\* list_files answers a pending build with a listing
ListFilesResolves ==
    \E k \in 1..Len(pendingBuilds), files \in VaultListings :
        BuildReturns(k, Resolved(files))

\* list_files fails for a pending build: the catch block
ListFilesRejects ==
    \E k \in 1..Len(pendingBuilds) : BuildReturns(k, Rejected)

NextWiki ==
    \/ WikiReplaceDoc
    \/ WikiScroll
    \/ WikiMoveCursor
    \/ RefreshTick
    \/ ListFilesResolves
    \/ ListFilesRejects

SpecWiki == InitWiki /\ [][NextWiki]_vars

-----------------------------------------------------------------------------
(* The math and divider widgets on screen: the state field of mathPlugin and
   the dividerPlugin on a document that is edited at the cursor, with the
   mousedown listeners of the drawn widgets *)

WidgetAlphabet == {"a", "$"}

\* a$a$
TextThenMathDoc == <<"a", "$", "a", "$">>

\* $$a$$
BlockMathDoc == <<"$", "$", "a", "$", "$">>

\* a, ---
TextThenDividerDoc == <<"a", "\n", "-", "-", "-">>

WidgetDocs == {TextThenMathDoc, BlockMathDoc, TextThenDividerDoc}

InitWidgets ==
    /\ doc \in WidgetDocs
    /\ selection = Cursor(0)
    /\ visibleRanges = FullViewport(doc)
    /\ tree = <<>>
    /\ isIndexBuilt = FALSE
    /\ fileIndex = {}
    /\ pendingBuilds = <<>>
    /\ lastBuildFailed = FALSE
    /\ lastUpdate = NoUpdate
    /\ scanI = 0
    /\ latexMatches = <<>>
    /\ wikiScanned = FALSE
    /\ wikiMatches = <<>>
    /\ mathDecorations = BuildMathDecorations(doc, selection)
    /\ dividerDecorations = BuildDividerDecorations(doc, selection, visibleRanges)
    /\ wikiDecorations = <<>>
    /\ previewDecorations = <<>>
    /\ widgetDOM = [math |-> Widgets(mathDecorations),
                    divider |-> Widgets(dividerDecorations)]
    /\ previousRun = NoRun
    /\ dividerScan = NoScan
    /\ fileSync = NoSync
    /\ newestBuilt = {}

\* one update of the view, as the math state field and the divider plugin
\* see it, and the redrawing of their widgets
WidgetDispatch(newDoc, newSel, newRanges, docChanged, viewportChanged, selectionSet) ==
    /\ doc' = newDoc
    /\ selection' = newSel
    /\ visibleRanges' = newRanges
    /\ mathDecorations' =
           MathUpdate(mathDecorations, docChanged, selectionSet, newDoc, newSel)
    /\ dividerDecorations' =
           DividerUpdate(dividerDecorations, docChanged, viewportChanged,
                         selectionSet, newDoc, newSel, newRanges)
    /\ widgetDOM' = Redraw(widgetDOM, mathDecorations', dividerDecorations')
    /\ lastUpdate' =
           UpdateRecord(docChanged, viewportChanged, selectionSet,
                        MathRebuilds(docChanged, selectionSet),
                        DividerRebuilds(docChanged, viewportChanged, selectionSet),
                        FALSE, FALSE)
    /\ UNCHANGED <<fileSync, newestBuilt, tree, isIndexBuilt, fileIndex, pendingBuilds, lastBuildFailed,
                   scanI, latexMatches, wikiScanned, wikiMatches,
                   wikiDecorations, previewDecorations, previousRun, dividerScan>>

\* the user moves the cursor with the keyboard
WidgetMoveCursor ==
    \E p \in 0..Len(doc) :
        WidgetDispatch(doc, Cursor(p), visibleRanges, FALSE, FALSE, TRUE)

\* the user types a character: it replaces the selection
WidgetInsertChar ==
    \E c \in WidgetAlphabet :
        LET p == selection.from
            newDoc == Slice(doc, 0, p) \o <<c>> \o Slice(doc, selection.to, Len(doc))
        IN  /\ Len(newDoc) <= MaxWidgetDocLen
            /\ WidgetDispatch(newDoc, Cursor(p + 1), FullViewport(newDoc),
                              TRUE, TRUE, TRUE)

\* the user deletes the selection, or the character before the cursor
WidgetDeleteChar ==
    /\ selection.to > 0
    /\ LET p == IF selection.from = selection.to THEN selection.from - 1
                ELSE selection.from
           newDoc == Slice(doc, 0, p) \o Slice(doc, selection.to, Len(doc))
       IN  WidgetDispatch(newDoc, Cursor(p), FullViewport(newDoc), TRUE, TRUE, TRUE)

\* the user scrolls
WidgetScroll ==
    \E newRanges \in LineViewports(doc) \ {visibleRanges} :
        WidgetDispatch(doc, selection, newRanges, FALSE, TRUE, FALSE)

\* MathWidget.toDOM: the mousedown listener of the clickOverlay of a drawn
\* widget; anchor <= head, so the main selection runs from anchor to head
ClickMathWidget ==
    \E k \in 1..Len(widgetDOM.math) :
        LET this == widgetDOM.math[k]
        IN  WidgetDispatch(doc, Range(this.startPos, this.endPos), visibleRanges,
                           FALSE, FALSE, TRUE)

\* DividerWidget.toDOM: the mousedown listener of a drawn widget
ClickDividerWidget ==
    \E k \in 1..Len(widgetDOM.divider) :
        LET this == widgetDOM.divider[k]
        IN  WidgetDispatch(doc, Range(this.start, this.end), visibleRanges,
                           FALSE, FALSE, TRUE)

\* mathClickHandler: mousedown with a target inside the element of the k-th
\* math decoration; view.posAtDOM(wrapper) is the decoration's from
MathClickHandler ==
    \E k \in 1..Len(mathDecorations) :
        LET pos == mathDecorations[k].from
            matches == FindLatexExpressions(doc)
            found == {j \in 1..Len(matches) :
                         pos >= matches[j].start /\ pos < matches[j].end}
        IN  /\ found # {}
            /\ LET match == matches[CHOOSE j \in found : \A i \in found : j <= i]
               IN  WidgetDispatch(doc, Range(match.start, match.end), visibleRanges,
                                  FALSE, FALSE, TRUE)

NextWidgets ==
    \/ WidgetMoveCursor
    \/ WidgetInsertChar
    \/ WidgetDeleteChar
    \/ WidgetScroll
    \/ ClickMathWidget
    \/ ClickDividerWidget
    \/ MathClickHandler

SpecWidgets == InitWidgets /\ [][NextWidgets]_vars

-----------------------------------------------------------------------------
(* dividerPlugin.buildDecorations, stepped through its two loops on a
   document with a list of visible ranges *)

DividerTokens == {<<"-", "-", "-">>, <<"a">>, <<"\n">>}

DividerScanDocs == {Flatten(ts) : ts \in SeqsUpTo(DividerTokens, MaxDividerTokens)}

\* the lists of at most MaxVisibleRanges ranges within a text, ascending and
\* disjoint
VisibleRangeLists(text) ==
    LET ranges == {Range(a, b) : <<a, b>> \in
                      {x \in (0..Len(text)) \X (0..Len(text)) : x[1] <= x[2]}}
    IN  {rs \in SeqsUpTo(ranges, MaxVisibleRanges) :
            \A k \in 1..(Len(rs) - 1) : rs[k].to < rs[k + 1].from}

InitDividerScan ==
    /\ doc \in DividerScanDocs
    /\ selection \in {Cursor(0), Cursor(Len(doc))}
    /\ visibleRanges \in VisibleRangeLists(doc)
    /\ tree = <<>>
    /\ isIndexBuilt = FALSE
    /\ fileIndex = {}
    /\ pendingBuilds = <<>>
    /\ lastBuildFailed = FALSE
    /\ lastUpdate = NoUpdate
    /\ scanI = 0
    /\ latexMatches = <<>>
    /\ wikiScanned = FALSE
    /\ wikiMatches = <<>>
    /\ mathDecorations = <<>>
    /\ dividerDecorations = <<>>
    /\ wikiDecorations = <<>>
    /\ previewDecorations = <<>>
    /\ widgetDOM = NoWidgets
    /\ previousRun = NoRun
    /\ dividerScan = NoScan
    /\ fileSync = NoSync
    /\ newestBuilt = {}

\* the for loop reaches the k-th visible range: let pos = from; after the
\* last range, builder.finish()
EnterRange(k) ==
    IF k > Len(visibleRanges)
    THEN [k |-> k, pos |-> 0, running |-> FALSE]
    ELSE [k |-> k, pos |-> visibleRanges[k].from, running |-> TRUE]

\* buildDecorations has returned
DividerScanDone == ~dividerScan.running /\ dividerScan.k > 0

\* buildDecorations(view) is called: a new builder, the for loop begins
BuildDecorationsCall ==
    /\ ~dividerScan.running
    /\ dividerDecorations' = <<>>
    /\ dividerScan' = EnterRange(1)
    /\ UNCHANGED <<fileSync, newestBuilt, doc, selection, visibleRanges, tree, isIndexBuilt, fileIndex,
                   pendingBuilds, lastBuildFailed, lastUpdate, scanI, latexMatches,
                   wikiScanned, wikiMatches, mathDecorations, wikiDecorations,
                   previewDecorations, widgetDOM, previousRun>>

\* one iteration of the while loop
DividerWhileStep ==
    /\ dividerScan.running
    /\ dividerScan.pos <= visibleRanges[dividerScan.k].to
    /\ LET r == DividerLineStep(doc, selection, dividerScan.pos)
       IN  /\ dividerDecorations' = dividerDecorations \o r.added
           /\ dividerScan' = [dividerScan EXCEPT !.pos = r.pos]
    /\ UNCHANGED <<fileSync, newestBuilt, doc, selection, visibleRanges, tree, isIndexBuilt, fileIndex,
                   pendingBuilds, lastBuildFailed, lastUpdate, scanI, latexMatches,
                   wikiScanned, wikiMatches, mathDecorations, wikiDecorations,
                   previewDecorations, widgetDOM, previousRun>>

\* the while loop ends: the for loop goes on to the next range, or returns
DividerForStep ==
    /\ dividerScan.running
    /\ ~(dividerScan.pos <= visibleRanges[dividerScan.k].to)
    /\ dividerScan' = EnterRange(dividerScan.k + 1)
    /\ UNCHANGED <<fileSync, newestBuilt, doc, selection, visibleRanges, tree, isIndexBuilt, fileIndex,
                   pendingBuilds, lastBuildFailed, lastUpdate, scanI, latexMatches,
                   wikiScanned, wikiMatches, mathDecorations, dividerDecorations,
                   wikiDecorations, previewDecorations, widgetDOM, previousRun>>

NextDividerScan ==
    \/ BuildDecorationsCall
    \/ DividerWhileStep
    \/ DividerForStep

SpecDividerScan == InitDividerScan /\ [][NextDividerScan]_vars

-----------------------------------------------------------------------------
(* useFileSynchronization: the load effect, the debounced save and the
   timers of the host *)

\* the other variables, which the hook does not touch
EditorUntouched ==
    UNCHANGED <<doc, selection, visibleRanges, tree, isIndexBuilt, fileIndex,
                pendingBuilds, lastBuildFailed, lastUpdate, scanI, latexMatches,
                wikiScanned, wikiMatches, mathDecorations, dividerDecorations,
                wikiDecorations, previewDecorations, widgetDOM, previousRun,
                dividerScan, newestBuilt>>

InitSave ==
    /\ doc = <<>>
    /\ selection = Cursor(0)
    /\ visibleRanges = <<>>
    /\ tree = <<>>
    /\ isIndexBuilt = FALSE
    /\ fileIndex = {}
    /\ pendingBuilds = <<>>
    /\ lastBuildFailed = FALSE
    /\ lastUpdate = NoUpdate
    /\ scanI = 0
    /\ latexMatches = <<>>
    /\ wikiScanned = FALSE
    /\ wikiMatches = <<>>
    /\ mathDecorations = <<>>
    /\ dividerDecorations = <<>>
    /\ wikiDecorations = <<>>
    /\ previewDecorations = <<>>
    /\ widgetDOM = NoWidgets
    /\ previousRun = NoRun
    /\ dividerScan = NoScan
    /\ fileSync = NoSync
    /\ newestBuilt = {}

\* clearTimeout(saveTimeoutRef.current), guarded by the ref being set: the
\* timers still pending afterwards
ClearSaveTimeout(sync) == {t \in sync.timers : t.id # sync.saveTimeoutRef}

\* the active note changes to p: the load effect runs, clears the pending
\* save and calls read_file
SetActiveNote(p) ==
    /\ p # fileSync.activeNote
    /\ fileSync' = [fileSync EXCEPT !.activeNote = p,
                                    !.timers = ClearSaveTimeout(fileSync),
                                    !.loads = @ \cup {p}]
    /\ EditorUntouched

\* read_file resolves: setContent(text)
ReadFileResolves(p) ==
    /\ p \in fileSync.loads
    /\ fileSync' = [fileSync EXCEPT !.content = fileSync.disk[p],
                                    !.loads = @ \ {p}]
    /\ EditorUntouched

\* read_file rejects: setContent(`Error loading file: ...`)
ReadFileRejects(p) ==
    /\ p \in fileSync.loads
    /\ fileSync' = [fileSync EXCEPT !.content = "Error loading file",
                                    !.loads = @ \ {p}]
    /\ EditorUntouched

\* handleContentChange(val): setContent, clear the pending timer, set a new
\* one that closes over activeNote.path and val
HandleContentChange(val) ==
    /\ fileSync.nextId <= MaxEdits
    /\ fileSync' =
         [fileSync EXCEPT
            !.content = val,
            !.timers = ClearSaveTimeout(fileSync) \cup
                         {[id |-> fileSync.nextId, path |-> fileSync.activeNote,
                           content |-> val]},
            !.saveTimeoutRef = fileSync.nextId,
            !.nextId = @ + 1,
            !.lastContent[fileSync.activeNote] = val,
            !.saved[fileSync.activeNote] = FALSE]
    /\ EditorUntouched

\* a timer's second has passed: invoke('write_file', {path, content}), which
\* writes the file or rejects (the rejection is only logged)
SaveTimerFires ==
    /\ \E t \in fileSync.timers, ok \in BOOLEAN :
         fileSync' =
           [fileSync EXCEPT
              !.timers = @ \ {t},
              !.disk[t.path] = IF ok THEN t.content ELSE @,
              !.writes = Append(@, [path |-> t.path, content |-> t.content]),
              !.saved[t.path] = IF t.content = fileSync.lastContent[t.path]
                                THEN TRUE ELSE @]
    /\ EditorUntouched

NextSave ==
    \/ \E p \in Notes : SetActiveNote(p)
    \/ \E p \in Notes : ReadFileResolves(p)
    \/ \E p \in Notes : ReadFileRejects(p)
    \/ \E val \in SaveContents : HandleContentChange(val)
    \/ SaveTimerFires

SpecSave == InitSave /\ [][NextSave]_vars

\* the host fires every timer that stays pending
FairSpecSave ==
    SpecSave /\ WF_vars(SaveTimerFires)

-----------------------------------------------------------------------------
(* Properties of the finders (SpecFinders) *)

Chars(s) == {s[k] : k \in 1..Len(s)}

\* the number of consecutive backslashes that end right before offset k of
\* text, not counting any before offset lo
RECURSIVE BackslashRun(_, _, _)
BackslashRun(text, lo, k) ==
    IF k - 1 >= lo /\ At(text, k - 1) = "\\"
    THEN 1 + BackslashRun(text, lo, k - 1)
    ELSE 0

\* C1: Math precedence.  No inline match lies inside a block match, and
\* $$a $b$ c$$ yields exactly one block match, [0,11) with formula `a $b$ c`,
\* and no inline match.
C1_MathPrecedence ==
    /\ \A j, k \in 1..Len(latexMatches) :
          latexMatches[j].isBlock /\ ~latexMatches[k].isBlock
              => ~(/\ latexMatches[j].start <= latexMatches[k].start
                   /\ latexMatches[k].end <= latexMatches[j].end)
    /\ doc = BlockWithInlineText /\ LatexScanned
          => latexMatches =
                 <<LatexMatch(0, 11, <<"a", " ", "$", "b", "$", " ", "c">>, TRUE)>>

\* C1 witness: the scan of a text is over and has emitted a block match
\* whose formula holds an inline candidate ($...$).
C1_Witness ==
    /\ LatexScanned
    /\ \E k \in 1..Len(latexMatches) :
          /\ latexMatches[k].isBlock
          /\ Cardinality({j \in 1..Len(latexMatches[k].formula) :
                              latexMatches[k].formula[j] = "$"}) >= 2

\* a list of spans s, with bounds lo(s[k]) and hi(s[k]), is sorted by start,
\* every span is non-empty and consecutive spans do not overlap
Ordered(s, lo(_), hi(_)) ==
    /\ \A k \in 1..Len(s) : lo(s[k]) < hi(s[k])
    /\ \A k \in 1..(Len(s) - 1) :
          lo(s[k]) <= lo(s[k + 1]) /\ lo(s[k + 1]) >= hi(s[k])

MatchStart(m) == m.start
MatchEnd(m) == m.end
LinkFrom(m) == m.from
LinkTo(m) == m.to

\* C3: Per-finder output order.  The list of findLatexExpressions and the
\* list of findWikiLinks are each ascending by start, with start < end and
\* next.start >= previous.end.
C3_FinderOrder ==
    /\ Ordered(latexMatches, MatchStart, MatchEnd)
    /\ Ordered(wikiMatches, LinkFrom, LinkTo)

\* C3 witness: both finders have returned at least two spans for one text.
C3_Witness ==
    /\ LatexScanned /\ wikiScanned
    /\ Len(latexMatches) >= 2 /\ Len(wikiMatches) >= 2

\* C7: Inline math line boundary.  No inline match holds a newline between
\* its delimiters, and $abc<newline>def$ yields no match.
C7_InlineOnOneLine ==
    /\ \A k \in 1..Len(latexMatches) :
          ~latexMatches[k].isBlock => "\n" \notin Chars(latexMatches[k].formula)
    /\ doc = InlineAcrossLinesText /\ LatexScanned => latexMatches = <<>>

\* C8: Escaped wikilinks.  No wikilink span opens right after a backslash,
\* and \[[Not a link]] yields no span.
C8_EscapedWikiLink ==
    /\ \A k \in 1..Len(wikiMatches) : At(doc, wikiMatches[k].from - 1) # "\\"
    /\ doc = EscapedLinkText /\ wikiScanned => wikiMatches = <<>>

\* C8 witness: findWikiLinks has returned for a text that holds [[ right
\* after a backslash and a ]] later on the same line.
C8_Witness ==
    /\ wikiScanned
    /\ \E s \in 1..(Len(doc) - 1), e \in 1..(Len(doc) - 1) :
          /\ At(doc, s - 1) = "\\" /\ At(doc, s) = "[" /\ At(doc, s + 1) = "["
          /\ e > s + 2 /\ At(doc, e) = "]" /\ At(doc, e + 1) = "]"
          /\ "\n" \notin Chars(Slice(doc, s, e))

\* the offset of the closing delimiter of a match, and of its formula
CloserAt(m) == IF m.isBlock THEN m.end - 2 ELSE m.end - 1
FormulaAt(m) == IF m.isBlock THEN m.start + 2 ELSE m.start + 1

\* C9: Escapes while searching for a closer.  The closing delimiter of a
\* match is never an escaped one: the backslashes of the formula that end
\* right before it pair up.  \$not math\$ yields no match.
C9_CloserNotEscaped ==
    /\ \A k \in 1..Len(latexMatches) :
          BackslashRun(doc, FormulaAt(latexMatches[k]), CloserAt(latexMatches[k])) % 2 = 0
    /\ doc = EscapedMathText /\ LatexScanned => latexMatches = <<>>

\* C9 witness: a match whose formula holds an escaped $ that the search
\* skipped.
C9_Witness ==
    \E k \in 1..Len(latexMatches) :
        \E j \in 1..(Len(latexMatches[k].formula) - 1) :
            /\ latexMatches[k].formula[j] = "\\"
            /\ latexMatches[k].formula[j + 1] = "$"
            /\ BackslashRun(latexMatches[k].formula, 0, j - 1) % 2 = 0

-----------------------------------------------------------------------------
(* Properties of the editor's decoration sets (SpecEditor) *)

HasDecoration(decos, from, to) ==
    \E k \in 1..Len(decos) : decos[k].from = from /\ decos[k].to = to

DecoFrom(d) == d.from
DecoTo(d) == d.to

\* the ranges of a decoration set, tagged with its kind
Spans(kind, decos) == {<<kind, decos[k].from, decos[k].to>> : k \in 1..Len(decos)}

AllSpans ==
    Spans("math", mathDecorations) \cup Spans("wikilink", wikiDecorations)
        \cup Spans("divider", dividerDecorations)
        \cup Spans("structural-mark", previewDecorations)

SelectionOverlaps(from, to) == selection.from <= to /\ selection.to >= from

\* the selection lies inside [from, to]
SelectionInside(from, to) == selection.from >= from /\ selection.to <= to

\* a line of the document that the divider scan visits
VisibleLine(n) ==
    \E k \in 1..Len(visibleRanges) :
        /\ visibleRanges[k].from <= Line(doc, n).to
        /\ Line(doc, n).from <= visibleRanges[k].to

\* C4 as claimed: a math span, and a divider line, is rendered raw (has no
\* replace decoration) if and only if the selection overlaps it:
\* selection.from <= span.end and selection.to >= span.start.
C4_OverlapSuppression ==
    /\ \A k \in 1..Len(FindLatexExpressions(doc)) :
          LET m == FindLatexExpressions(doc)[k]
          IN  ~HasDecoration(mathDecorations, m.start, m.end)
                  <=> SelectionOverlaps(m.start, m.end)
    /\ \A n \in 1..LineCount(doc) :
          Line(doc, n).text = <<"-", "-", "-">> /\ VisibleLine(n)
              => (~HasDecoration(dividerDecorations, Line(doc, n).from, Line(doc, n).to)
                      <=> SelectionOverlaps(Line(doc, n).from, Line(doc, n).to))

\* a node of the tree that is one of the seven markers and has a parent
IsMarker(node) ==
    /\ node.name \in {"HeaderMark", "EmphasisMark", "QuoteMark", "ListMark",
                      "LinkMark", "URL", "ImageMark"}
    /\ node.parent # NoParent

\* a LinkMark or URL whose parent is neither a Link nor an Image
IsForeignLinkMark(node) ==
    /\ node.name \in {"LinkMark", "URL"}
    /\ node.parent.name \notin {"Link", "Image"}

\* C5 as claimed: a structural marker that the plugin hides is left visible
\* if and only if the selection is fully contained in its enclosing node:
\* selection.from >= node.from and selection.to <= node.to.
C5_PreviewContainment ==
    \A k \in 1..Len(tree) :
        IsMarker(tree[k]) /\ ~IsForeignLinkMark(tree[k])
            => (~HasDecoration(previewDecorations, tree[k].from, tree[k].to)
                    <=> SelectionInside(tree[k].parent.from, tree[k].parent.to))

\* C5 as amended: a structural marker (other than a LinkMark or URL outside
\* a Link or Image, which is never hidden) is left visible if and only if the
\* selection touches or overlaps its enclosing node:
\* selection.from <= node.to and selection.to >= node.from.
C5_PreviewOverlap ==
    \A k \in 1..Len(tree) :
        /\ IsMarker(tree[k]) /\ ~IsForeignLinkMark(tree[k])
              => (~HasDecoration(previewDecorations, tree[k].from, tree[k].to)
                      <=> SelectionOverlaps(tree[k].parent.from, tree[k].parent.to))
        /\ IsMarker(tree[k]) /\ IsForeignLinkMark(tree[k])
              => ~HasDecoration(previewDecorations, tree[k].from, tree[k].to)

\* C5 witness: a non-empty selection that starts before the enclosing node
\* and ends inside it leaves the marker visible.
C5_Witness ==
    \E k \in 1..Len(tree) :
        /\ IsMarker(tree[k]) /\ ~IsForeignLinkMark(tree[k])
        /\ selection.from < tree[k].parent.from
        /\ tree[k].parent.from < selection.to
        /\ selection.to < tree[k].parent.to
        /\ ~HasDecoration(previewDecorations, tree[k].from, tree[k].to)

\* C6: with a collapsed cursor at p, a math span, a divider line and the
\* markers of an enclosing node [start, end] are shown raw if and only if
\* start <= p <= end; for the span [10,20) a cursor at 15 suppresses the
\* widget and a cursor at 25 does not.
C6_CursorBoundary ==
    selection.from = selection.to =>
        LET p == selection.from
        IN  /\ \A k \in 1..Len(FindLatexExpressions(doc)) :
                  LET m == FindLatexExpressions(doc)[k]
                  IN  ~HasDecoration(mathDecorations, m.start, m.end)
                          <=> (m.start <= p /\ p <= m.end)
            /\ \A n \in 1..LineCount(doc) :
                  Line(doc, n).text = <<"-", "-", "-">> /\ VisibleLine(n)
                      => (~HasDecoration(dividerDecorations,
                                         Line(doc, n).from, Line(doc, n).to)
                              <=> (Line(doc, n).from <= p /\ p <= Line(doc, n).to))
            /\ \A k \in 1..Len(tree) :
                  IsMarker(tree[k]) /\ ~IsForeignLinkMark(tree[k])
                      => (~HasDecoration(previewDecorations, tree[k].from, tree[k].to)
                              <=> (tree[k].parent.from <= p /\ p <= tree[k].parent.to))
            /\ doc = SpanTenTwentyDoc /\ p = 15 => mathDecorations = <<>>
            /\ doc = SpanTenTwentyDoc /\ p = 25
                  => HasDecoration(mathDecorations, 10, 20)

\* C6 witness: the cursor sits right at the end of a math span that has text
\* after it, and the span has no widget.
C6_Witness ==
    /\ selection.from = selection.to
    /\ \E k \in 1..Len(FindLatexExpressions(doc)) :
          LET m == FindLatexExpressions(doc)[k]
          IN  /\ selection.from = m.end
              /\ m.end < Len(doc)
              /\ ~HasDecoration(mathDecorations, m.start, m.end)

\* C10: Divider exact match.  A visible line whose text is exactly `---` has
\* a divider decoration over [line.from, line.to] when the selection does
\* not touch it; no decoration lies on a line whose text is `--- ` or
\* `----`, or anything but `---`.
C10_DividerExactMatch ==
    /\ \A n \in 1..LineCount(doc) :
          (/\ Line(doc, n).text = <<"-", "-", "-">>
           /\ VisibleLine(n)
           /\ ~SelectionOverlaps(Line(doc, n).from, Line(doc, n).to))
              => HasDecoration(dividerDecorations, Line(doc, n).from, Line(doc, n).to)
    /\ \A n \in 1..LineCount(doc) :
          Line(doc, n).text \in {<<"-", "-", "-", " ">>, <<"-", "-", "-", "-">>}
              => \A k \in 1..Len(dividerDecorations) :
                     \/ dividerDecorations[k].to < Line(doc, n).from
                     \/ dividerDecorations[k].from > Line(doc, n).to
    /\ \A k \in 1..Len(dividerDecorations) :
          LineAt(doc, dividerDecorations[k].from).text = <<"-", "-", "-">>

\* C10 witness: of the three lines `---`, `--- ` and `----`, with the cursor
\* on the last, only the first has a divider decoration.
C10_Witness ==
    /\ doc = DividerLinesDoc
    /\ selection = Cursor(Len(doc))
    /\ dividerDecorations = <<DividerDecoration(Line(doc, 1))>>

\* a line of the document that the selection neither touches nor overlaps
UntouchedLine(n) ==
    /\ VisibleLine(n)
    /\ ~SelectionOverlaps(Line(doc, n).from, Line(doc, n).to)

\* C11 as claimed: a line is a divider (has a decoration over
\* [line.from, line.to] while the selection is away from it) if and only if
\* its text with leading and trailing whitespace removed is exactly `---`.
C11_DividerTrimmed ==
    \A n \in 1..LineCount(doc) :
        UntouchedLine(n)
            => (HasDecoration(dividerDecorations, Line(doc, n).from, Line(doc, n).to)
                    <=> Trim(Line(doc, n).text) = <<"-", "-", "-">>)

\* C11 as amended: a line is a divider if and only if its text, untrimmed,
\* is exactly `---`; the decoration covers the full line
\* [line.from, line.to] and no divider decoration covers anything else.
C11_DividerUntrimmed ==
    /\ \A n \in 1..LineCount(doc) :
          UntouchedLine(n)
              => (HasDecoration(dividerDecorations, Line(doc, n).from, Line(doc, n).to)
                      <=> Line(doc, n).text = <<"-", "-", "-">>)
    /\ \A k \in 1..Len(dividerDecorations) :
          \E n \in 1..LineCount(doc) :
              /\ dividerDecorations[k].from = Line(doc, n).from
              /\ dividerDecorations[k].to = Line(doc, n).to

\* C11 witness: a line that is `---` only after trimming has no decoration
\* while an exact `---` line of the same document has one.
C11_Witness ==
    \E n, m \in 1..LineCount(doc) :
        /\ UntouchedLine(n)
        /\ Line(doc, n).text # <<"-", "-", "-">>
        /\ Trim(Line(doc, n).text) = <<"-", "-", "-">>
        /\ ~HasDecoration(dividerDecorations, Line(doc, n).from, Line(doc, n).to)
        /\ Line(doc, m).to - Line(doc, m).from = 3
        /\ HasDecoration(dividerDecorations, Line(doc, m).from, Line(doc, m).to)

-----------------------------------------------------------------------------
(* Properties of the wikilink plugin and its index (SpecWiki) *)

\* a step in which the wikilink plugin builds its decorations anew
WikiRebuilt == doc' # doc \/ visibleRanges' # visibleRanges

ValidClass == "cm-wikilink cm-wikilink-valid"
BrokenClass == "cm-wikilink cm-wikilink-broken"

\* `See [[My Note]] for details.` has exactly one wikilink, [4,15), with
\* target `My Note` and no alias
MyNoteOneLink ==
    doc = MyNoteDoc =>
        /\ Len(FindWikiLinks(doc)) = 1
        /\ FindWikiLinks(doc)[1].target = <<"M", "y", " ", "N", "o", "t", "e">>
        /\ FindWikiLinks(doc)[1].alias = NoAlias
        /\ Len(wikiDecorations) = 1
        /\ wikiDecorations[1].from = 4 /\ wikiDecorations[1].to = 15
        /\ wikiDecorations[1].target = <<"M", "y", " ", "N", "o", "t", "e">>

\* C12 as claimed: `See [[My Note]] for details.` yields one wikilink span
\* with target `My Note` and no alias, and whenever the decorations are
\* built a mark carries the broken-link class if exists(target) is false
\* and the valid class otherwise.
C12_BrokenLinkClass ==
    /\ []MyNoteOneLink
    /\ [][WikiRebuilt =>
            \A k \in 1..Len(wikiDecorations') :
                wikiDecorations'[k].class =
                    IF Exists(fileIndex', wikiDecorations'[k].target)
                    THEN ValidClass ELSE BrokenClass]_vars

\* C12 as amended: the same, but the broken-link class is given only once
\* the initial build of the index has completed; until then every mark
\* carries the valid class whatever exists(target) says.
C12_BrokenLinkClassOnceBuilt ==
    /\ []MyNoteOneLink
    /\ [][WikiRebuilt =>
            \A k \in 1..Len(wikiDecorations') :
                wikiDecorations'[k].class =
                    IF isIndexBuilt' /\ ~Exists(fileIndex', wikiDecorations'[k].target)
                    THEN BrokenClass ELSE ValidClass]_vars

\* C12 witness: the index is built and does not hold `My Note`, and the one
\* mark of `See [[My Note]] for details.` carries the broken-link class.
C12_Witness ==
    /\ doc = MyNoteDoc
    /\ isIndexBuilt
    /\ ~Exists(fileIndex, <<"M", "y", " ", "N", "o", "t", "e">>)
    /\ Len(wikiDecorations) = 1
    /\ wikiDecorations[1].class = BrokenClass

\* every mark of the plugin's decoration set carries the class
AllMarks(decos, class) == \A k \in 1..Len(decos) : decos[k].class = class

-----------------------------------------------------------------------------
(* Properties of the plugins' update methods (SpecEditor) *)

-----------------------------------------------------------------------------
(* Properties of the drawn widgets and their mousedown listeners
   (SpecWidgets) *)

\* [from, to] is the span of a formula of the current document
IsMathSpan(from, to) ==
    \E j \in 1..Len(FindLatexExpressions(doc)) :
        /\ FindLatexExpressions(doc)[j].start = from
        /\ FindLatexExpressions(doc)[j].end = to

\* [from, to] is a line --- of the current document
IsDividerSpan(from, to) ==
    \E n \in 1..LineCount(doc) :
        /\ Line(doc, n).from = from
        /\ Line(doc, n).to = to
        /\ IsDividerLine(Line(doc, n).text)

\* the range the mousedown listener of each drawn widget dispatches is the
\* span of the decoration the widget is drawn for
ListenersCurrent ==
    /\ Len(widgetDOM.math) = Len(mathDecorations)
    /\ Len(widgetDOM.divider) = Len(dividerDecorations)
    /\ \A k \in 1..Len(mathDecorations) :
          /\ widgetDOM.math[k].startPos = mathDecorations[k].from
          /\ widgetDOM.math[k].endPos = mathDecorations[k].to
          /\ IsMathSpan(mathDecorations[k].from, mathDecorations[k].to)
    /\ \A k \in 1..Len(dividerDecorations) :
          /\ widgetDOM.divider[k].start = dividerDecorations[k].from
          /\ widgetDOM.divider[k].end = dividerDecorations[k].to
          /\ IsDividerSpan(dividerDecorations[k].from, dividerDecorations[k].to)

\* a step that is a mousedown on a widget: the only steps of SpecWidgets that
\* leave the document alone and select a range
IsClick ==
    /\ doc' = doc
    /\ lastUpdate'.selectionSet
    /\ ~lastUpdate'.docChanged
    /\ selection'.from < selection'.to

\* C16: a mousedown on a drawn math or divider widget selects, from its
\* start to its end, the span that widget stands for in the current
\* document: the span of a formula found in the current text, or of a line
\* --- of it, that had a decoration when the mouse went down; and this holds
\* of every widget drawn after any sequence of edits, cursor moves and
\* scrolls, because the listener of every drawn widget holds the span of its
\* decoration.
C16_ClickSelectsSpan ==
    /\ []ListenersCurrent
    /\ [][IsClick =>
            \/ /\ HasDecoration(mathDecorations, selection'.from, selection'.to)
               /\ IsMathSpan(selection'.from, selection'.to)
            \/ /\ HasDecoration(dividerDecorations, selection'.from, selection'.to)
               /\ IsDividerSpan(selection'.from, selection'.to)]_vars

\* Reached: the formula of a$a$ moved to [2,5] by a character typed before
\* it, or the line --- of a, --- moved to [1,4] by deleting the a, and a
\* mousedown on its widget has selected it.
C16_Witness ==
    /\ lastUpdate.selectionSet /\ ~lastUpdate.docChanged
    /\ \/ /\ doc = <<"a", "a", "$", "a", "$">>
          /\ selection = Range(2, 5)
       \/ /\ doc = <<"\n", "-", "-", "-">>
          /\ selection = Range(1, 4)

-----------------------------------------------------------------------------
(* Properties of repeated calls of the finders (SpecFinders) *)

-----------------------------------------------------------------------------
(* Properties of parseWikiLink (SpecFinders) *)

\* the content of a match: its text between [[ and ]]
Inner(m) == Slice(m.fullText, 2, Len(m.fullText) - 2)

\* t is s without the whitespace at its two ends
IsTrimOf(t, s) ==
    \E a, b \in 0..Len(s) :
        /\ a <= b
        /\ t = Slice(s, a, b)
        /\ \A k \in 0..(a - 1) : IsWhitespace(At(s, k))
        /\ \A k \in b..(Len(s) - 1) : IsWhitespace(At(s, k))
        /\ t # <<>> => ~IsWhitespace(t[1]) /\ ~IsWhitespace(t[Len(t)])

\* the match m is split at the first of the offsets pipes of its content,
\* or has its whole content as target when there is none
SplitAtFirstOf(m, pipes) ==
    IF pipes = {}
    THEN IsTrimOf(m.target, Inner(m)) /\ m.alias = NoAlias
    ELSE LET k == CHOOSE k \in pipes : \A j \in pipes : k <= j
         IN  /\ IsTrimOf(m.target, Slice(Inner(m), 0, k))
             /\ m.alias # NoAlias
             /\ IsTrimOf(m.alias, Slice(Inner(m), k + 1, Len(Inner(m))))

\* the offsets of the | of s that are not escaped: an even number of
\* backslashes ends right before them
UnescapedPipes(s) ==
    {k \in 0..(Len(s) - 1) : At(s, k) = "|" /\ BackslashRun(s, 0, k) % 2 = 0}

\* the offsets of the | of s
Pipes(s) == {k \in 0..(Len(s) - 1) : At(s, k) = "|"}

\* C18 as stated: the target of a match is its content before the first
\* unescaped |, the alias the content after it, both trimmed; without an
\* unescaped | the trimmed content is the target and the alias is undefined.
C18_SplitAtUnescapedPipe ==
    \A k \in 1..Len(wikiMatches) :
        SplitAtFirstOf(wikiMatches[k], UnescapedPipes(Inner(wikiMatches[k])))

\* C18, amended: the target of a match is its content before the first |,
\* escaped or not, the alias the content after it, both trimmed; without
\* any | the trimmed content is the target and the alias is undefined.
C18_SplitAtFirstPipe ==
    \A k \in 1..Len(wikiMatches) :
        SplitAtFirstOf(wikiMatches[k], Pipes(Inner(wikiMatches[k])))

\* Reached: findWikiLinks has returned a match whose content holds an
\* escaped | and whitespace next to it.
C18_Witness ==
    /\ wikiScanned
    /\ \E k \in 1..Len(wikiMatches) :
          LET inner == Inner(wikiMatches[k])
          IN  \E p \in Pipes(inner) :
                 /\ p \notin UnescapedPipes(inner)
                 /\ IsWhitespace(At(inner, p + 1))
                 /\ wikiMatches[k].alias # NoAlias

-----------------------------------------------------------------------------
(* Properties of the regex of findWikiLinks (SpecFinders) *)

\* ]] stands at offset e of the document
ClosingAt(e) == At(doc, e) = "]" /\ At(doc, e + 1) = "]"

\* a [[...]] opens at offset s: [[, then at least one character that does
\* not begin a ]], then a ]] further on the same line
OpensLink(s) ==
    /\ At(doc, s) = "[" /\ At(doc, s + 1) = "["
    /\ ~ClosingAt(s + 2)
    /\ \E e \in (s + 3)..(LineAt(doc, s).to - 2) : ClosingAt(e)

\* offset s lies inside a match that begins before it
InsideEarlierLink(s) ==
    \E k \in 1..Len(wikiMatches) :
        wikiMatches[k].from < s /\ s < wikiMatches[k].to

\* a match begins at offset s
EmittedAt(s) == \E k \in 1..Len(wikiMatches) : wikiMatches[k].from = s

\* the [[...]] that are candidates of their own: not inside an earlier match
LinkCandidates ==
    {s \in 0..(Len(doc) - 1) : OpensLink(s) /\ ~InsideEarlierLink(s)}

\* C19 as stated: a [[...]] of a line is emitted exactly when no unescaped
\* backslash precedes its [[, that is, when the run of backslashes that ends
\* right before it is even; so \\[[Note]] is a wikilink.
C19_UnescapedBackslash ==
    wikiScanned =>
        /\ \A k \in 1..Len(wikiMatches) : OpensLink(wikiMatches[k].from)
        /\ \A s \in LinkCandidates :
              EmittedAt(s) <=> BackslashRun(doc, LineAt(doc, s).from, s) % 2 = 0

\* C19, amended: a [[...]] of a line is emitted exactly when no backslash,
\* escaped or not, stands right before its [[; so \\[[Note]] is not a
\* wikilink.
C19_AnyBackslash ==
    wikiScanned =>
        /\ \A k \in 1..Len(wikiMatches) : OpensLink(wikiMatches[k].from)
        /\ \A s \in LinkCandidates : EmittedAt(s) <=> At(doc, s - 1) # "\\"

\* Reached: findWikiLinks has returned for a text with a [[...]] right after
\* two backslashes, and has emitted no match for it.
C19_Witness ==
    /\ wikiScanned
    /\ \E s \in LinkCandidates :
          /\ At(doc, s - 1) = "\\" /\ At(doc, s - 2) = "\\"
          /\ BackslashRun(doc, LineAt(doc, s).from, s) = 2
          /\ ~EmittedAt(s)

-----------------------------------------------------------------------------
(* Properties of the block branch of findLatexExpressions (SpecFinders) *)

\* $$ stands at offset k of the document
DollarsAt(k) == At(doc, k) = "$" /\ At(doc, k + 1) = "$"

\* the outer loop is at a $$ after which the text holds no further $$
AtUnterminatedBlock ==
    /\ scanI < Len(doc)
    /\ DollarsAt(scanI)
    /\ \A e \in (scanI + 2)..(Len(doc) - 1) : ~DollarsAt(e)

\* a step of the outer loop of findLatexExpressions
IsScanStep == doc' = doc /\ scanI' > scanI

\* C20: Unterminated block math.  At a $$ that no later $$ closes, the scan
\* emits nothing and resumes right after the two $, and so still finds the
\* formulas that follow: $$a $b$ c yields the inline match [4,7) with
\* formula b.
C20_UnterminatedBlockIsLiteral ==
    /\ [](doc = UnterminatedBlockText /\ LatexScanned
            => latexMatches = <<LatexMatch(4, 7, <<"b">>, FALSE)>>)
    /\ [][AtUnterminatedBlock /\ IsScanStep
            => scanI' = scanI + 2 /\ latexMatches' = latexMatches]_vars

-----------------------------------------------------------------------------
(* Properties of the progress of findLatexExpressions (SpecFinders) *)

\* the outer loop is at a single $ whose line ends, at the newline of
\* offset n, with no $ between the opener and n
AtInlineOpenerOfEndedLine ==
    /\ scanI < Len(doc)
    /\ At(doc, scanI) = "$" /\ At(doc, scanI + 1) # "$"
    /\ \E n \in (scanI + 1)..(Len(doc) - 1) :
          /\ At(doc, n) = "\n"
          /\ \A k \in (scanI + 1)..(n - 1) : At(doc, k) \notin {"$", "\n"}

\* C21: Scan progress and termination.  Every iteration of the outer loop
\* of findLatexExpressions moves the scan index strictly forward and never
\* further than one past the end of the text, so the scan of every text
\* ends; the empty text yields the empty list; and at an inline opener whose
\* line ends before a closing $ the iteration emits nothing and resumes one
\* character after the opener.
C21_ScanProgress ==
    /\ [](doc = <<>> => LatexScanned /\ latexMatches = <<>>)
    /\ [][IsScanStep => scanI' > scanI /\ scanI' <= Len(doc) + 1]_vars
    /\ [][AtInlineOpenerOfEndedLine /\ IsScanStep
            => scanI' = scanI + 1 /\ latexMatches' = latexMatches]_vars

-----------------------------------------------------------------------------
(* Properties of dividerPlugin.buildDecorations (SpecDividerScan) *)

\* line n of the document has a position in common with a visible range
IntersectsVisibleRange(n) ==
    \E k \in 1..Len(visibleRanges) :
        /\ Line(doc, n).from <= visibleRanges[k].to
        /\ Line(doc, n).to >= visibleRanges[k].from

\* C22: Viewport-scoped divider scan.  Once buildDecorations has returned,
\* every line --- that has a position in common with a visible range and
\* that the selection does not touch has a decoration from the line's start
\* to the line's end, also when the line begins before the visible range.
C22_DividerOfVisibleLine ==
    DividerScanDone =>
        \A n \in 1..LineCount(doc) :
            (/\ IsDividerLine(Line(doc, n).text)
             /\ IntersectsVisibleRange(n)
             /\ ~SelectionOverlaps(Line(doc, n).from, Line(doc, n).to))
                => HasDecoration(dividerDecorations, Line(doc, n).from, Line(doc, n).to)

\* Reached: buildDecorations has returned and has decorated a line --- that
\* begins before the only visible range it has a position in common with.
C22_Witness ==
    /\ DividerScanDone
    /\ \E n \in 1..LineCount(doc) :
          /\ IsDividerLine(Line(doc, n).text)
          /\ IntersectsVisibleRange(n)
          /\ \A k \in 1..Len(visibleRanges) :
                visibleRanges[k].from > Line(doc, n).from
          /\ HasDecoration(dividerDecorations, Line(doc, n).from, Line(doc, n).to)

-----------------------------------------------------------------------------
(* Properties of the wikilink decorations after a build of the index
   (SpecWiki) *)

\* C23: Wikilink decorations follow the index.  In every state after the
\* initial build of the index has completed, each mark of the plugin's
\* decoration set carries the valid class when fileIndex.exists(target)
\* holds of the current index and the broken class otherwise, whether or
\* not the document or the viewport has changed since the build.
C23_DecorationsFollowIndex ==
    isIndexBuilt =>
        \A k \in 1..Len(wikiDecorations) :
            wikiDecorations[k].class =
                IF Exists(fileIndex, wikiDecorations[k].target)
                THEN ValidClass ELSE BrokenClass

-----------------------------------------------------------------------------
(* Properties of the debounced save (SpecSave, FairSpecSave) *)

\* C24: the last content passed to handleContentChange for a note is, when
\* timers fire, eventually passed to write_file with that note's path
C24_LastEditIsSaved ==
    \A n \in Notes : (~fileSync.saved[n]) ~> fileSync.saved[n]

\* at most one save timer is pending
OneSaveTimerPending == Cardinality(fileSync.timers) <= 1

\* a save that fires carries the latest content of the note it names
FiredSaveIsLatest ==
    [][Len(fileSync'.writes) > Len(fileSync.writes) =>
          LET w == fileSync'.writes[Len(fileSync'.writes)]
          IN  w.content = fileSync.lastContent[w.path]]_vars

-----------------------------------------------------------------------------
(* Properties of the builds of the file index (SpecWiki) *)

\* a call of build returns in this step
IsBuildReturn == Len(pendingBuilds') < Len(pendingBuilds)

\* C25: a build whose list_files fails leaves the index as it was, and one
\* whose list_files succeeds installs the whole index of a listing in its
\* one step
C25_BuildAllOrNothing ==
    [][IsBuildReturn =>
          IF lastBuildFailed'
          THEN fileIndex' = fileIndex
          ELSE \E files \in VaultListings :
                  fileIndex' = IndexKeys(files, VaultPath)]_vars

\* a build has failed on an index that held entries
C25_Witness == lastBuildFailed /\ fileIndex # {}

\* C26: once no build is awaiting list_files, the index holds the listing
\* answered to the build that was started last
C26_LastStartedBuildWins == pendingBuilds = <<>> => fileIndex = newestBuilt

\* the targets looked up in the index: those of the documents' links, names
\* of other notes, and names every object has
LookupTargets ==
    {<<"a">>, <<"a", ".", "m", "d">>, <<"M", "y", " ", "N", "o", "t", "e">>,
     <<"d", "/", "b">>, <<"b">>, <<"c">>, <<"d">>, <<"A">>, <<>>,
     <<"c", "o", "n", "s", "t", "r", "u", "c", "t", "o", "r">>,
     <<"t", "o", "S", "t", "r", "i", "n", "g">>}

\* C27: exists(target) is true only if a markdown file was registered under
\* target or target.md, and exactly when resolve(target) returns a path
C27_LookupIsExact ==
    \A target \in LookupTargets :
        /\ Exists(fileIndex, target) =>
              \/ target \in fileIndex
              \/ (target \o <<".", "m", "d">>) \in fileIndex
        /\ Exists(fileIndex, target) <=> Resolve(fileIndex, target) = "path"

-----------------------------------------------------------------------------
(* Properties of the math finder's matches (SpecFinders, SpecEditor) *)

\* \$a$
EscapedInlineText == <<"\\", "$", "a", "$">>
\* \$$a$$
EscapedBlockText == <<"\\", "$", "$", "a", "$", "$">>

\* the end of the last match that ends at or before offset p, or 0
MatchEndBefore(p) ==
    LET ends == {latexMatches[k].end : k \in 1..Len(latexMatches)}
        before == {e \in ends : e <= p}
    IN  IF before = {} THEN 0 ELSE CHOOSE e \in before : \A f \in before : f <= e

\* the character before offset p is a backslash outside every match, itself
\* not escaped by a backslash before it
AfterEscapingBackslash(p) ==
    /\ p >= 1
    /\ At(doc, p - 1) = "\\"
    /\ \A k \in 1..Len(latexMatches) :
          ~(latexMatches[k].start <= p - 1 /\ p - 1 < latexMatches[k].end)
    /\ BackslashRun(doc, MatchEndBefore(p - 1), p) % 2 = 1

\* C28: no match starts at a $ that follows an escaping backslash outside
\* the matches, and \$a$ and \$$a$$ yield no match
C28_EscapedOpener ==
    /\ \A k \in 1..Len(latexMatches) :
          ~AfterEscapingBackslash(latexMatches[k].start)
    /\ LatexScanned /\ doc \in {EscapedInlineText, EscapedBlockText}
          => latexMatches = <<>>

-----------------------------------------------------------------------------
(* Properties of the math spans and their widgets (SpecWidgets) *)

\* the length of the delimiter of a match or widget
DelimiterLen(isBlock) == IF isBlock THEN 2 ELSE 1

\* the match lies in the text with its formula strictly between its
\* delimiters
HasSpanGeometry(text, m) ==
    LET d == DelimiterLen(m.isBlock)
    IN  /\ m.formula = Slice(text, m.start + d, m.end - d)
        /\ m.end - m.start = Len(m.formula) + 2 * d
        /\ 0 <= m.start /\ m.end <= Len(text)

\* C29: every match of findLatexExpressions has its formula strictly between
\* its delimiters, so that end - start is the formula's length plus 4 (block)
\* or 2 (inline); and a drawn widget that is eq to the widget of a match of
\* the next document has that match's end as its endPos
C29_MathSpanGeometry ==
    /\ [](\A k \in 1..Len(FindLatexExpressions(doc)) :
              HasSpanGeometry(doc, FindLatexExpressions(doc)[k]))
    /\ [][\A j \in 1..Len(widgetDOM.math) :
            \A k \in 1..Len(FindLatexExpressions(doc')) :
               MathWidgetEq(widgetDOM.math[j],
                            MathDecoration(FindLatexExpressions(doc')[k]).widget)
                  => widgetDOM.math[j].endPos = FindLatexExpressions(doc')[k].end]_vars

\* Reached: $a$a with its formula drawn has become $a$aa by a character typed
\* at its end, and the element of the widget drawn before is kept
C29_Witness ==
    /\ doc = <<"$", "a", "$", "a", "a">>
    /\ selection = Cursor(5)
    /\ lastUpdate.docChanged
    /\ widgetDOM.math = <<MathWidget(<<"a">>, FALSE, 0, 3)>>

-----------------------------------------------------------------------------
(* Properties of the loops of the divider plugin's buildDecorations
   (SpecDividerScan) *)

\* lineAt is about to be called, and with a position within the document
LineAtWithinDoc ==
    (dividerScan.running /\ dividerScan.pos <= visibleRanges[dividerScan.k].to)
        => dividerScan.pos <= Len(doc)

\* the decorations were added to the builder in non-decreasing from order
AddedInOrder ==
    \A k \in 1..(Len(dividerDecorations) - 1) :
        dividerDecorations[k].from <= dividerDecorations[k + 1].from

\* no line was added to the builder twice
AddedOnce ==
    \A j, k \in 1..Len(dividerDecorations) :
        dividerDecorations[j].from = dividerDecorations[k].from => j = k

=============================================================================
